---- MODULE Spec2Model ----
(***************************************************************************)
(* Media monitoring pipeline: normalization -> idempotent upsert ->        *)
(* enrichment state machine (media_monitor.pipeline, media_monitor.db.store*)
(* and media_monitor.preprocess.enrich), driven by scripts/run_worker.py.  *)
(*                                                                         *)
(* Python values are modelled as follows: str as TLA+ strings, None as the *)
(* reserved string NULL (no input domain below contains it), bool as the   *)
(* strings "True"/"False", list as sequences, dict as records.               *)
(***************************************************************************)
EXTENDS Integers, Sequences, FiniteSets, TLC

\* ---------------------------------------------------------------------------
\* Bounds of the model
\* ---------------------------------------------------------------------------
\* number of worker cycles explored (the worker loop itself is unbounded)
MaxCycles == 2
\* largest max_retries value a configuration may carry
MaxRetries == 1
\* largest number of rows the store is allowed to grow to
MaxRows == 2
\* largest number of raw records one fetch returns
MaxFetch == 2

\* ---------------------------------------------------------------------------
\* Python value helpers
\* ---------------------------------------------------------------------------
NULL == "<None>"

\* Python truthiness of an Optional[str]
Truthy(x) == x # NULL /\ x # ""

\* Python `a or b` on Optional[str]
Or(a, b) == IF Truthy(a) THEN a ELSE b

Min(a, b) == IF a <= b THEN a ELSE b

\* s[i] as a one-character string
CharAt(s, i) == SubSeq(s, i, i)

\* s[i:] (1-based i)
Tail_(s, i) == SubSeq(s, i, Len(s))

StartsWithAt(s, i, p) ==
    /\ i + Len(p) - 1 <= Len(s)
    /\ SubSeq(s, i, i + Len(p) - 1) = p

EndsWith(s, p) ==
    /\ Len(p) <= Len(s)
    /\ SubSeq(s, Len(s) - Len(p) + 1, Len(s)) = p

\* Python `p in s` on strings
Contains(s, p) == \E i \in 1..(Len(s) + 1) : StartsWithAt(s, i, p)

\* Python s[:n]
Truncate(s, n) == SubSeq(s, 1, Min(Len(s), n))

IsSpace(c) == c \in {" ", "\n", "\t"}

\* least index j >= i with s[j] = c, or 0
RECURSIVE IndexFrom(_, _, _)
IndexFrom(s, c, i) ==
    IF i > Len(s) THEN 0
    ELSE IF CharAt(s, i) = c THEN i
    ELSE IndexFrom(s, c, i + 1)

\* least index j >= i with s[j] whitespace, or Len(s) + 1
RECURSIVE SpaceFrom(_, _)
SpaceFrom(s, i) ==
    IF i > Len(s) THEN Len(s) + 1
    ELSE IF IsSpace(CharAt(s, i)) THEN i
    ELSE SpaceFrom(s, i + 1)

\* ---------------------------------------------------------------------------
\* media_monitor/utils.py
\* ---------------------------------------------------------------------------
\* hashlib.sha256(...).hexdigest(), treated as collision-free: an injective tag
sha256_text(s) == "sha256:" \o s

\* html.unescape, single left-to-right pass, for the entities of the inputs
Entities == << <<"&amp;", "&">>, <<"&lt;", "<">>, <<"&gt;", ">">> >>

RECURSIVE HtmlUnescape(_, _)
HtmlUnescape(s, i) ==
    IF i > Len(s) THEN ""
    ELSE IF \E k \in 1..Len(Entities) : StartsWithAt(s, i, Entities[k][1])
    THEN LET k == CHOOSE k \in 1..Len(Entities) : StartsWithAt(s, i, Entities[k][1])
         IN Entities[k][2] \o HtmlUnescape(s, i + Len(Entities[k][1]))
    ELSE CharAt(s, i) \o HtmlUnescape(s, i + 1)

\* _TAG_RE.sub(" ", t) with _TAG_RE = <[^>]+>
RECURSIVE TagSub(_, _)
TagSub(s, i) ==
    IF i > Len(s) THEN ""
    ELSE LET j == IndexFrom(s, ">", i + 1)
         IN IF CharAt(s, i) = "<" /\ j >= i + 2
            THEN " " \o TagSub(s, j + 1)
            ELSE CharAt(s, i) \o TagSub(s, i + 1)

\* the length of the scheme matched by https?:// at i, or 0
UrlSchemeAt(s, i) ==
    IF StartsWithAt(s, i, "http://") THEN 7
    ELSE IF StartsWithAt(s, i, "https://") THEN 8
    ELSE 0

\* _URL_RE.sub(" ", t) with _URL_RE = https?://\S+
RECURSIVE UrlSub(_, _)
UrlSub(s, i) ==
    IF i > Len(s) THEN ""
    ELSE LET n == UrlSchemeAt(s, i)
             e == SpaceFrom(s, i + n)
         IN IF n > 0 /\ e > i + n
            THEN " " \o UrlSub(s, e)
            ELSE CharAt(s, i) \o UrlSub(s, i + 1)

\* _WS_RE.sub(" ", t) with _WS_RE = \s+
RECURSIVE WsSub(_, _)
WsSub(s, i) ==
    IF i > Len(s) THEN ""
    ELSE IF IsSpace(CharAt(s, i))
    THEN IF i > 1 /\ IsSpace(CharAt(s, i - 1))
         THEN WsSub(s, i + 1)
         ELSE " " \o WsSub(s, i + 1)
    ELSE CharAt(s, i) \o WsSub(s, i + 1)

\* str.lstrip() / str.rstrip() / str.strip()
RECURSIVE LStrip(_)
LStrip(s) ==
    IF Len(s) >= 1 /\ IsSpace(CharAt(s, 1)) THEN LStrip(Tail_(s, 2)) ELSE s

RECURSIVE RStrip(_)
RStrip(s) ==
    IF Len(s) >= 1 /\ IsSpace(CharAt(s, Len(s))) THEN RStrip(SubSeq(s, 1, Len(s) - 1)) ELSE s

Strip(s) == RStrip(LStrip(s))

clean_text(text) ==
    IF ~Truthy(text) THEN ""
    ELSE Strip(WsSub(UrlSub(TagSub(HtmlUnescape(text, 1), 1), 1), 1))


\* str.replace(pat, rep), pat non-empty
RECURSIVE Replace(_, _, _, _)
Replace(s, pat, rep, i) ==
    IF i > Len(s) THEN ""
    ELSE IF StartsWithAt(s, i, pat) THEN rep \o Replace(s, pat, rep, i + Len(pat))
    ELSE CharAt(s, i) \o Replace(s, pat, rep, i + 1)

\* str.split(sep) for a one-character sep
RECURSIVE Split(_, _, _)
Split(s, sep, i) ==
    LET j == IndexFrom(s, sep, i)
    IN IF j = 0 THEN << Tail_(s, i) >>
       ELSE << SubSeq(s, i, j - 1) >> \o Split(s, sep, j + 1)

UpperCase == "ABCDEFGHIJKLMNOPQRSTUVWXYZ"
LowerCase == "abcdefghijklmnopqrstuvwxyz"

\* str.lower() on ASCII
RECURSIVE Lower(_, _)
Lower(s, i) ==
    IF i > Len(s) THEN ""
    ELSE LET k == IndexFrom(UpperCase, CharAt(s, i), 1)
         IN (IF k = 0 THEN CharAt(s, i) ELSE CharAt(LowerCase, k)) \o Lower(s, i + 1)

\* the clock: the worker cycle in which now_iso() is called
now_iso(clk) == "2026-01-0" \o ToString(clk) \o "T00:00:00+00:00"

\* dateutil's parse(s).astimezone(utc).isoformat() on the timestamps of the inputs;
\* NULL stands for the parser raising
DtParseIso(s) ==
    CASE s = "20251230T070000+00:00" -> "2025-12-30T07:00:00+00:00"
      [] s = "2025-12-31T08:00:00+07:00" -> "2025-12-31T01:00:00+00:00"
      [] s = "Tue, 30 Dec 2025 09:00:00 GMT" -> "2025-12-30T09:00:00+00:00"
      [] OTHER -> NULL

safe_parse_dt(s) == IF ~Truthy(s) THEN NULL ELSE DtParseIso(s)

parse_gdelt_seendate(seendate) ==
    IF ~Truthy(seendate) THEN NULL
    ELSE LET s == Replace(seendate, "Z", "+00:00", 1)
         IN IF Contains(s, "T") /\ Len(s) >= 15
            THEN DtParseIso(s)
            ELSE safe_parse_dt(seendate)

\* json.dumps(..., separators=(",", ":")) of an Optional[str]
JsonStr(x) == IF x = NULL THEN "null" ELSE "\"" \o x \o "\""

RECURSIVE JsonJoin(_, _)
JsonJoin(parts, i) ==
    IF i > Len(parts) THEN ""
    ELSE parts[i] \o (IF i < Len(parts) THEN "," ELSE "") \o JsonJoin(parts, i + 1)

\* json_dumps of a list of strings
JsonList(xs) == "[" \o JsonJoin([i \in 1..Len(xs) |-> JsonStr(xs[i])], 1) \o "]"

\* json_dumps of a dict given as a sequence of <<key, dumped value>>
JsonObj(kvs) ==
    "{" \o JsonJoin([i \in 1..Len(kvs) |-> JsonStr(kvs[i][1]) \o ":" \o kvs[i][2]], 1) \o "}"

PublisherMapping ==
    << <<"kompas.com", "kompas">>, <<"nasional.kompas.com", "kompas">>,
       <<"tempo.co", "tempo">>, <<"nasional.tempo.co", "tempo">>,
       <<"antaranews.com", "antara">>, <<"mediaindonesia.com", "mediaindonesia">>,
       <<"detik.com", "detik">>, <<"cnnindonesia.com", "cnnindonesia">>,
       <<"cnbcindonesia.com", "cnbcindonesia">> >>

guess_publisher_from_domain(domain) ==
    IF ~Truthy(domain) THEN "unknown"
    ELSE LET d == Lower(domain, 1)
             hit(k) == d = PublisherMapping[k][1] \/ EndsWith(d, "." \o PublisherMapping[k][1])
             labels == Split(d, ".", 1)
         IN IF \E k \in 1..Len(PublisherMapping) : hit(k)
            THEN LET k == CHOOSE k \in 1..Len(PublisherMapping) :
                              hit(k) /\ \A m \in 1..(k - 1) : ~hit(m)
                 IN PublisherMapping[k][2]
            ELSE IF Contains(d, ".") THEN labels[Len(labels) - 1] ELSE d

\* ---------------------------------------------------------------------------
\* media_monitor/pipeline.py: identity, fingerprint and the base item
\* ---------------------------------------------------------------------------
\* an id that does not depend on the platform
_make_id_UrlOnly(platform, url) == sha256_text(Or(url, ""))

\* the fingerprint of platform and url joined without the "|"
_make_id_NoSeparator(platform, url) == sha256_text(platform \o Or(url, ""))

_make_id(platform, url) == sha256_text(platform \o "|" \o Or(url, ""))

_content_hash(title, summary) ==
    sha256_text(Truncate(Or(title, ""), 200) \o "||" \o Truncate(Or(summary, ""), 200))

_base_item(platform, source_type, publisher_or_author, url, title, summary, published_at, raw, signals, clk) ==
    [ id |-> _make_id(platform, url),
      platform |-> platform,
      source_type |-> source_type,
      publisher_or_author |-> publisher_or_author,
      url |-> url,
      title |-> title,
      summary |-> summary,
      published_at |-> published_at,
      ingested_at |-> now_iso(clk),
      content_text |-> NULL,
      content_fetched_at |-> NULL,
      content_status |-> NULL,
      content_hash |-> _content_hash(title, summary),
      topics |-> NULL,
      actors |-> NULL,
      locations |-> NULL,
      language |-> NULL,
      is_editorial |-> NULL,
      sentiment |-> NULL,
      tags_json |-> NULL,
      signals_json |-> signals,
      raw_json |-> raw,
      enriched_at |-> NULL,
      enrich_model |-> NULL,
      enrich_status |-> NULL,
      enrich_error |-> NULL ]

\* clean_text(x or "") or None
CleanOrNone(x) == Or(clean_text(Or(x, "")), NULL)

\* ---------------------------------------------------------------------------
\* Raw records the source adapters can return (the adapters are external
\* collaborators: any of these batches may come back from a fetch)
\* ---------------------------------------------------------------------------
Platforms == <<"gdelt", "mediastack", "rss", "youtube">>

GdeltRaw ==
    { [url |-> "http://a/1", domain |-> "nasional.kompas.com",
       title |-> "<b>Skandal</b> korupsi", seendate |-> "20251230T070000Z"],
      [url |-> "http://a/1", domain |-> "kompas.com",
       title |-> "Kabar baik &amp; opini", seendate |-> "kemarin"],
      [url |-> NULL, domain |-> NULL, title |-> NULL, seendate |-> NULL] }

\* articles that lack a url: the key absent or null, or the empty string
GdeltMalformed ==
    { [url |-> NULL, domain |-> "tempo.co", title |-> "Tanpa tautan", seendate |-> NULL],
      [url |-> "", domain |-> NULL, title |-> "Harga naik", seendate |-> "20251230T070000Z"] }

MediastackRaw ==
    { [url |-> "http://a/1", source |-> " Tempo ", author |-> NULL,
       title |-> "Harga naik", description |-> "dan tidak turun",
       published_at |-> "2025-12-31T08:00:00+07:00"] }

RssRaw ==
    { [link |-> "http://a/1", title |-> "Apresiasi publik", summary |-> NULL,
       description |-> "lihat http://a/1 sekarang",
       published |-> "Tue, 30 Dec 2025 09:00:00 GMT", updated |-> NULL] }

YoutubeRaw ==
    { [link |-> "http://y/1", video_id |-> "v1", title |-> "Debat kritik",
       summary |-> NULL, published |-> NULL, updated |-> "besok"] }

FeedNames == {"kompas_politik"}
ChannelNames == {"KompasTV"}
StatsMaps == { [v \in {"v1"} |-> "{\"views\":7}"] }

\* sequences over S of length at most n
SeqUpTo(S, n) == UNION { [1..k -> S] : k \in 0..n }

\* ---------------------------------------------------------------------------
\* media_monitor/pipeline.py: the normalizers
\* ---------------------------------------------------------------------------
GdeltItem(a, clk) ==
    LET url == Or(a.url, "")
        domain == Or(a.domain, "")
        pub == IF Truthy(domain) THEN guess_publisher_from_domain(domain) ELSE "unknown"
        signals == JsonObj(<< <<"domain", JsonStr(domain)>>,
                              <<"sourcecountry", "null">>, <<"language", "null">>,
                              <<"socialimage", "null">>, <<"url_mobile", "null">> >>)
        raw == JsonObj(<< <<"url", JsonStr(a.url)>>, <<"domain", JsonStr(a.domain)>>,
                          <<"title", JsonStr(a.title)>>,
                          <<"seendate", JsonStr(a.seendate)>> >>)
    IN _base_item("gdelt", "news", pub, url, CleanOrNone(a.title), NULL,
                  parse_gdelt_seendate(a.seendate), raw, signals, clk)

\* GdeltItem over the raw records and clock values of the model, computed once
GdeltItems ==
    [clk \in 1..MaxCycles |-> [a \in GdeltRaw \cup GdeltMalformed |-> GdeltItem(a, clk)]]

normalize_gdelt(articles, clk) ==
    [i \in 1..Len(articles) |-> GdeltItems[clk][articles[i]]]

MediastackItem(a, clk) ==
    LET url == Or(a.url, "")
        pub == Or(Strip(Or(a.source, Or(a.author, "unknown"))), "unknown")
        signals == JsonObj(<< <<"category", "null">>, <<"country", "null">>,
                              <<"language", "null">>, <<"image", "null">> >>)
        raw == JsonObj(<< <<"url", JsonStr(a.url)>>, <<"source", JsonStr(a.source)>>,
                          <<"author", JsonStr(a.author)>>, <<"title", JsonStr(a.title)>>,
                          <<"description", JsonStr(a.description)>>,
                          <<"published_at", JsonStr(a.published_at)>> >>)
    IN _base_item("mediastack", "news", pub, url, CleanOrNone(a.title),
                  CleanOrNone(a.description), safe_parse_dt(a.published_at),
                  raw, signals, clk)

MediastackItems ==
    [clk \in 1..MaxCycles |-> [a \in MediastackRaw |-> MediastackItem(a, clk)]]

normalize_mediastack(rows, clk) ==
    [i \in 1..Len(rows) |-> MediastackItems[clk][rows[i]]]

RssItem(feed_name, e, clk) ==
    LET url == Or(e.link, "")
        pub == Split(feed_name, "_", 1)[1]
        signals == JsonObj(<< <<"feed_name", JsonStr(feed_name)>>,
                              <<"feed_url", "null">> >>)
        raw == JsonObj(<< <<"link", JsonStr(e.link)>>, <<"title", JsonStr(e.title)>>,
                          <<"summary", JsonStr(e.summary)>>,
                          <<"description", JsonStr(e.description)>>,
                          <<"published", JsonStr(e.published)>>,
                          <<"updated", JsonStr(e.updated)>> >>)
    IN _base_item("rss", "news", pub, url, CleanOrNone(e.title),
                  CleanOrNone(Or(e.summary, e.description)),
                  safe_parse_dt(Or(e.published, e.updated)), raw, signals, clk)

RssItems ==
    [clk \in 1..MaxCycles |-> [n \in FeedNames |-> [e \in RssRaw |-> RssItem(n, e, clk)]]]

\* feed_payload: a sequence of <<feed_name, entries>> in the dict's order
RECURSIVE normalize_rss(_, _)
normalize_rss(feed_payload, clk) ==
    IF feed_payload = << >> THEN << >>
    ELSE LET f == Head(feed_payload)
         IN [i \in 1..Len(f[2]) |-> RssItems[clk][f[1]][f[2][i]]]
            \o normalize_rss(Tail(feed_payload), clk)

YoutubeItem(channel_name, e, stats_map, clk) ==
    LET url == Or(e.link, "")
        vid == e.video_id
        metrics == IF Truthy(vid) /\ vid \in DOMAIN stats_map THEN stats_map[vid] ELSE "{}"
        signals == JsonObj(<< <<"channel_name", JsonStr(channel_name)>>,
                              <<"channel_id", "null">>, <<"video_id", JsonStr(vid)>>,
                              <<"metrics", metrics>> >>)
        raw == JsonObj(<< <<"link", JsonStr(e.link)>>, <<"video_id", JsonStr(e.video_id)>>,
                          <<"title", JsonStr(e.title)>>, <<"summary", JsonStr(e.summary)>>,
                          <<"published", JsonStr(e.published)>>,
                          <<"updated", JsonStr(e.updated)>> >>)
    IN _base_item("youtube", "social", channel_name, url, CleanOrNone(e.title),
                  CleanOrNone(e.summary), safe_parse_dt(Or(e.published, e.updated)),
                  raw, signals, clk)

YoutubeItems ==
    [clk \in 1..MaxCycles |-> [n \in ChannelNames |-> [m \in StatsMaps |->
        [e \in YoutubeRaw |-> YoutubeItem(n, e, m, clk)]]]]

RECURSIVE normalize_youtube(_, _, _)
normalize_youtube(payload, stats_map, clk) ==
    IF payload = << >> THEN << >>
    ELSE LET c == Head(payload)
         IN [i \in 1..Len(c[2]) |-> YoutubeItems[clk][c[1]][stats_map][c[2][i]]]
            \o normalize_youtube(Tail(payload), stats_map, clk)

\* ---------------------------------------------------------------------------
\* media_monitor/db/store.py
\* The media_items table is a function from id (the primary key) to the row.
\* ---------------------------------------------------------------------------
EmptyStore == [k \in {} |-> 0]

\* the protected set without the enrichment fields
protected_fields_NoEnrichment ==
    { "signals_json", "content_text", "content_fetched_at", "content_status",
      "content_hash", "enriched_at", "enrich_model", "enrich_status", "enrich_error" }

\* the protected set without the bookkeeping fields
protected_fields_NoBookkeeping ==
    { "topics", "actors", "locations", "language", "is_editorial", "sentiment",
      "tags_json", "signals_json", "content_text", "content_fetched_at",
      "content_status", "content_hash" }

\* the protected set without enriched_at
protected_fields_NoEnrichedAt ==
    { "topics", "actors", "locations", "language", "is_editorial", "sentiment",
      "tags_json", "signals_json", "content_text", "content_fetched_at",
      "content_status", "content_hash", "enrich_model", "enrich_status",
      "enrich_error" }

protected_fields ==
    { "topics", "actors", "locations", "language", "is_editorial", "sentiment",
      "tags_json", "signals_json", "content_text", "content_fetched_at",
      "content_status", "content_hash", "enriched_at", "enrich_model",
      "enrich_status", "enrich_error" }

\* an update that leaves the existing row as it is
MergeRow_KeepsRow(obj, it) == obj

\* the else branch of upsert_items: setattr for every key that is not protected
MergeRow(obj, it) ==
    [k \in DOMAIN obj |-> IF k \in DOMAIN it /\ k \notin protected_fields
                          THEN it[k] ELSE obj[k]]

\* the loop body without `updated += 1`
UpsertOne_NoUpdateCount(acc, it) ==
    IF it.id \notin DOMAIN acc.store
    THEN [store |-> [k \in DOMAIN acc.store \cup {it.id} |->
                        IF k = it.id THEN it ELSE acc.store[k]],
          inserted |-> acc.inserted + 1, updated |-> acc.updated]
    ELSE [store |-> [acc.store EXCEPT ![it.id] = MergeRow(@, it)],
          inserted |-> acc.inserted, updated |-> acc.updated]

\* the loop body with `inserted += 1` moved out of the `if row is None` branch
UpsertOne_InsertedAlways(acc, it) ==
    IF it.id \notin DOMAIN acc.store
    THEN [store |-> [k \in DOMAIN acc.store \cup {it.id} |->
                        IF k = it.id THEN it ELSE acc.store[k]],
          inserted |-> acc.inserted + 1, updated |-> acc.updated]
    ELSE [store |-> [acc.store EXCEPT ![it.id] = MergeRow(@, it)],
          inserted |-> acc.inserted + 1, updated |-> acc.updated + 1]

\* one iteration of the loop of upsert_items
UpsertOne(acc, it) ==
    IF it.id \notin DOMAIN acc.store
    THEN [store |-> [k \in DOMAIN acc.store \cup {it.id} |->
                        IF k = it.id THEN it ELSE acc.store[k]],
          inserted |-> acc.inserted + 1, updated |-> acc.updated]
    ELSE [store |-> [acc.store EXCEPT ![it.id] = MergeRow(@, it)],
          inserted |-> acc.inserted, updated |-> acc.updated + 1]

RECURSIVE UpsertLoop(_, _)
UpsertLoop(acc, its) ==
    IF its = << >> THEN acc ELSE UpsertLoop(UpsertOne(acc, Head(its)), Tail(its))

\* Store.upsert_items: the store after the commit and the returned counts
upsert_items(st, its) ==
    UpsertLoop([store |-> st, inserted |-> 0, updated |-> 0], its)

\* Store.upsert_items when applying record k raises (the database refuses a
\* statement): line 68 is not reached and the session is closed without a
\* commit, so the work done in it for records 1..k-1 is discarded
upsert_items_raises(st, its, k) == st

\* Store.list_unenriched: the rows with enriched_at NULL, at most `limit` of them.
\* The query has no ORDER BY, so the database may return any `limit` of the
\* matching rows in any order: the set of the possible results.
PendingIds(st) == { k \in DOMAIN st : st[k].enriched_at = NULL }

\* the query without its WHERE clause
list_unenriched_NoWhere(st, limit) ==
    LET ids == DOMAIN st
        n == Min(limit, Cardinality(ids))
    IN { [i \in 1..n |-> st[f[i]]] :
            f \in { g \in [1..n -> ids] : \A a, b \in 1..n : a # b => g[a] # g[b] } }

list_unenriched(st, limit) ==
    LET ids == PendingIds(st)
        n == Min(limit, Cardinality(ids))
    IN { [i \in 1..n |-> st[f[i]]] :
            f \in { g \in [1..n -> ids] : \A a, b \in 1..n : a # b => g[a] # g[b] } }

\* update_enrichment that does not write enrich_model
update_enrichment_NoModel(st, item_id, topics, actors, locations, language, is_editorial, sentiment, tags_json, model, status, error, enriched_at) ==
    IF item_id \notin DOMAIN st THEN st
    ELSE [st EXCEPT ![item_id] =
            [@ EXCEPT !.topics = JsonList(topics),
                      !.actors = JsonList(actors),
                      !.locations = JsonList(locations),
                      !.language = language,
                      !.is_editorial = is_editorial,
                      !.sentiment = sentiment,
                      !.tags_json = tags_json,
                      !.enrich_status = status,
                      !.enrich_error = error,
                      !.enriched_at = enriched_at]]

\* Store.update_enrichment
update_enrichment(st, item_id, topics, actors, locations, language, is_editorial, sentiment, tags_json, model, status, error, enriched_at) ==
    IF item_id \notin DOMAIN st THEN st
    ELSE [st EXCEPT ![item_id] =
            [@ EXCEPT !.topics = JsonList(topics),
                      !.actors = JsonList(actors),
                      !.locations = JsonList(locations),
                      !.language = language,
                      !.is_editorial = is_editorial,
                      !.sentiment = sentiment,
                      !.tags_json = tags_json,
                      !.enrich_model = model,
                      !.enrich_status = status,
                      !.enrich_error = error,
                      !.enriched_at = enriched_at]]

\* a row with nothing but its id
BlankRow(item_id) ==
    [_base_item("", "", "", "", NULL, NULL, NULL, "", NULL, 1) EXCEPT
        !.id = item_id, !.ingested_at = NULL, !.content_hash = NULL]

\* update_content that inserts the row when it is missing
update_content_Creates(st, item_id, content_text, fetched_at, status, content_hash) ==
    LET base == IF item_id \in DOMAIN st THEN st
                ELSE [k \in DOMAIN st \cup {item_id} |->
                        IF k = item_id THEN BlankRow(item_id) ELSE st[k]]
    IN [base EXCEPT ![item_id] =
            [@ EXCEPT !.content_text = content_text,
                      !.content_fetched_at = fetched_at,
                      !.content_status = status,
                      !.content_hash = IF Truthy(content_hash) THEN content_hash ELSE @]]

\* update_content without the `if content_hash:` test
update_content_ResetsHash(st, item_id, content_text, fetched_at, status, content_hash) ==
    IF item_id \notin DOMAIN st THEN st
    ELSE [st EXCEPT ![item_id] =
            [@ EXCEPT !.content_text = content_text,
                      !.content_fetched_at = fetched_at,
                      !.content_status = status,
                      !.content_hash = content_hash]]

\* update_content that leaves content_status as it is
update_content_NoStatus(st, item_id, content_text, fetched_at, status, content_hash) ==
    IF item_id \notin DOMAIN st THEN st
    ELSE [st EXCEPT ![item_id] =
            [@ EXCEPT !.content_text = content_text,
                      !.content_fetched_at = fetched_at,
                      !.content_hash = IF Truthy(content_hash) THEN content_hash ELSE @]]

\* Store.update_content
update_content(st, item_id, content_text, fetched_at, status, content_hash) ==
    IF item_id \notin DOMAIN st THEN st
    ELSE [st EXCEPT ![item_id] =
            [@ EXCEPT !.content_text = content_text,
                      !.content_fetched_at = fetched_at,
                      !.content_status = status,
                      !.content_hash = IF Truthy(content_hash) THEN content_hash ELSE @]]

\* json_loads of a stored topics string: the list of its elements (null as
\* NULL), or JsonRaises when the text is not a JSON list of strings
JsonRaises == << "<raises>" >>

JsonElem(x) ==
    IF x = "null" THEN NULL
    ELSE IF Len(x) >= 2 /\ CharAt(x, 1) = "\"" /\ CharAt(x, Len(x)) = "\""
    THEN SubSeq(x, 2, Len(x) - 1)
    ELSE "<raises>"

json_loads(s) ==
    IF ~(Len(s) >= 2 /\ CharAt(s, 1) = "[" /\ CharAt(s, Len(s)) = "]") THEN JsonRaises
    ELSE IF Len(s) = 2 THEN << >>
    ELSE LET parts == Split(SubSeq(s, 2, Len(s) - 1), ",", 1)
             elems == [i \in 1..Len(parts) |-> JsonElem(parts[i])]
         IN IF \E i \in 1..Len(elems) : elems[i] = "<raises>" THEN JsonRaises ELSE elems

\* the characters of the stored timestamps in code-point order
CodePointOrder == "+-0123456789:TZ"

\* a >= b on TEXT columns (bytewise comparison), from position i on
RECURSIVE TextGeq(_, _, _)
TextGeq(a, b, i) ==
    IF i > Len(b) THEN TRUE
    ELSE IF i > Len(a) THEN FALSE
    ELSE LET ra == IndexFrom(CodePointOrder, CharAt(a, i), 1)
             rb == IndexFrom(CodePointOrder, CharAt(b, i), 1)
         IN IF ra > rb THEN TRUE
            ELSE IF ra < rb THEN FALSE
            ELSE TextGeq(a, b, i + 1)

\* the WHERE clauses of query_items (lines 186-191); a NULL column never
\* satisfies a comparison
QueryMatches(row, since_iso, platform, publisher) ==
    /\ Truthy(since_iso) =>
          row.published_at # NULL /\ TextGeq(row.published_at, since_iso, 1)
    /\ Truthy(platform) => row.platform = platform
    /\ Truthy(publisher) => row.publisher_or_author = publisher

\* lines 198-202: the decoded topics of a row and the any(...) test
RowTopics(row) ==
    IF ~Truthy(row.topics) THEN << >>
    ELSE IF json_loads(row.topics) = JsonRaises THEN << >>
    ELSE json_loads(row.topics)

TopicsHit(row, topics_any) ==
    \E i \in 1..Len(topics_any), j \in 1..Len(RowTopics(row)) :
        topics_any[i] = RowTopics(row)[j]

\* the rows a SELECT ... LIMIT limit over the rows `ids` may return (no ORDER BY)
LimitedRows(st, ids, limit) ==
    LET n == Min(limit, Cardinality(ids))
    IN { [i \in 1..n |-> st[f[i]]] :
            f \in { g \in [1..n -> ids] : \A a, b \in 1..n : a # b => g[a] # g[b] } }

\* query_items that filters on topics inside the query, before the LIMIT
query_items_FilterFirst(st, since_iso, topics_any, platform, publisher, limit) ==
    LET ids == { id \in DOMAIN st :
                   /\ QueryMatches(st[id], since_iso, platform, publisher)
                   /\ topics_any # << >> => TopicsHit(st[id], topics_any) }
    IN LimitedRows(st, ids, limit)

\* Store.query_items: the set of the lists it may return; topics_any << >>
\* stands for None and for the empty list (both falsy at line 195)
query_items(st, since_iso, topics_any, platform, publisher, limit) ==
    LET ids == { id \in DOMAIN st : QueryMatches(st[id], since_iso, platform, publisher) }
        keep(r) == TopicsHit(r, topics_any)
    IN { IF topics_any # << >> THEN SelectSeq(rows, keep) ELSE rows :
            rows \in LimitedRows(st, ids, limit) }

\* The ingest_state table is a set of rows; `source` is its primary key.
StateRow(source, last_run_at, cursor) ==
    [source |-> source, last_run_at |-> last_run_at, cursor |-> cursor]

\* Store.get_state: s.get(IngestState, source); the empty set stands for None
get_state(tbl, source) == { r \in tbl : r.source = source }

\* set_state that adds a row whether or not the source has one
set_state_AlwaysAdds(tbl, source, last_run_at, cursor) ==
    tbl \cup { StateRow(source, last_run_at, cursor) }

\* Store.set_state
set_state(tbl, source, last_run_at, cursor) ==
    IF get_state(tbl, source) = {}
    THEN tbl \cup { StateRow(source, last_run_at, cursor) }
    ELSE { IF r.source = source THEN [r EXCEPT !.last_run_at = last_run_at,
                                               !.cursor = cursor]
           ELSE r : r \in tbl }

\* ---------------------------------------------------------------------------
\* media_monitor/preprocess: the Enrichment object and the fallback classifier
\* ---------------------------------------------------------------------------
\* Enrichment.model_dump() through json_dumps
ModelDumpJson(enr) ==
    JsonObj(<< <<"topics", JsonList(enr.topics)>>, <<"actors", JsonList(enr.actors)>>,
               <<"locations", JsonList(enr.locations)>>,
               <<"language", JsonStr(enr.language)>>,
               <<"is_editorial", IF enr.is_editorial = NULL THEN "null"
                                 ELSE Lower(enr.is_editorial, 1)>>,
               <<"sentiment", JsonStr(enr.sentiment)>> >>)

\* the taxonomy of the configuration: topics in the dict's order, seed actors
Taxonomy ==
    [ topics |-> << [name |-> "hukum", keywords |-> <<"Korupsi", "skandal">>,
                     locations |-> << >>],
                    [name |-> "ekonomi", keywords |-> <<"harga">>,
                     locations |-> <<"Jakarta">>],
                    [name |-> "umum", keywords |-> << >>, locations |-> << >>] >>,
      actors |-> <<"KPK", "Tempo">> ]

\* any(x in text for x in xs)
AnyIn(xs, text) == \E i \in 1..Len(xs) : Contains(text, xs[i])

LowerAll(xs) == [i \in 1..Len(xs) |-> Lower(xs[i], 1)]

\* lines 118-122: the text the classifier looks at
FallbackText_WithContent(it) ==
    Lower(clean_text(Or(it.title, "")) \o " " \o clean_text(Or(it.summary, ""))
          \o " " \o clean_text(Or(it.content_text, "")), 1)

FallbackText(it) ==
    Lower(clean_text(Or(it.title, "")) \o " " \o clean_text(Or(it.summary, "")), 1)

\* lines 124-132 with a topic kept when either list matches
FallbackTopics_EitherList(text, taxonomy) ==
    LET keep(spec) ==
            LET kws == LowerAll(spec.keywords)
                locs == LowerAll(spec.locations)
            IN \/ ~(Len(kws) > 0 /\ ~AnyIn(kws, text))
               \/ ~(Len(locs) > 0 /\ ~AnyIn(locs, text))
        kept == SelectSeq(taxonomy.topics, keep)
    IN [i \in 1..Len(kept) |-> kept[i].name]

\* lines 124-132: the topics loop, with its two `continue` tests
FallbackTopics(text, taxonomy) ==
    LET keep(spec) ==
            LET kws == LowerAll(spec.keywords)
                locs == LowerAll(spec.locations)
            IN /\ ~(Len(kws) > 0 /\ ~AnyIn(kws, text))
               /\ ~(Len(locs) > 0 /\ ~AnyIn(locs, text))
        kept == SelectSeq(taxonomy.topics, keep)
    IN [i \in 1..Len(kept) |-> kept[i].name]

\* the marker lists of lines 138, 142 and 144
OpinionMarkers == <<"opini", "menurut saya", "seharusnya", "kritik">>
PositiveMarkers == <<"positif", "baik", "bagus", "apresiasi">>
NegativeMarkers == <<"negatif", "buruk", "jelek", "korupsi", "skandal">>

\* lines 137-139 with False in place of None
FallbackEditorial_False(text) == IF AnyIn(OpinionMarkers, text) THEN "True" ELSE "False"

\* lines 137-139
FallbackEditorial(text) == IF AnyIn(OpinionMarkers, text) THEN "True" ELSE NULL

\* lines 141-145: if ... elif ...
FallbackSentiment(text) ==
    IF AnyIn(PositiveMarkers, text) THEN "positive"
    ELSE IF AnyIn(NegativeMarkers, text) THEN "negative"
    ELSE "neutral"

_fallback_keyword_enrichment(it, taxonomy) ==
    LET text == FallbackText(it)
        hasActor(a) == Contains(text, Lower(a, 1))
    IN [ topics |-> FallbackTopics(text, taxonomy),
         actors |-> SelectSeq(taxonomy.actors, hasActor),
         locations |-> << >>,
         language |-> IF AnyIn(<<"yang", "dan", "tidak", "dengan">>, text)
                      THEN "id" ELSE NULL,
         is_editorial |-> FallbackEditorial(text),
         sentiment |-> FallbackSentiment(text) ]

\* the (title, summary) pairs the normalizers produce from the raw records
NormalizedTexts ==
    LET its == { GdeltItems[1][a] : a \in GdeltRaw }
               \cup { MediastackItems[1][a] : a \in MediastackRaw }
               \cup { RssItems[1][n][e] : n \in FeedNames, e \in RssRaw }
               \cup { YoutubeItems[1][n][m][e] :
                        n \in ChannelNames, m \in StatsMaps, e \in YoutubeRaw }
    IN { <<it.title, it.summary>> : it \in its }

\* _fallback_keyword_enrichment(it, Taxonomy) by it's title and summary, computed once
FallbackResults ==
    [ts \in NormalizedTexts |->
        _fallback_keyword_enrichment(
            [BlankRow("") EXCEPT !.title = ts[1], !.summary = ts[2]], Taxonomy)]

\* ---------------------------------------------------------------------------
\* Collaborators: what the classification and content-fetch calls can produce
\* ---------------------------------------------------------------------------
\* Enrichment objects GeminiClient.enrich can return (Enrichment.model_validate
\* accepts any strings; the fields are optional)
ModelResults ==
    { [topics |-> <<"hukum">>, actors |-> <<"KPK">>, locations |-> <<"Jakarta">>,
       language |-> "id", is_editorial |-> "False", sentiment |-> "negative"],
      [topics |-> << >>, actors |-> << >>, locations |-> << >>,
       language |-> NULL, is_editorial |-> NULL, sentiment |-> "mixed"] }

\* str(e) of the exceptions GeminiClient.enrich can raise
ErrMsgs == {"", "503 Server Error"}

\* results of fetch_article_text
FetchOutcomes == {NULL, "", "Isi artikel"}

NoEnrichment ==
    [topics |-> << >>, actors |-> << >>, locations |-> << >>,
     language |-> NULL, is_editorial |-> NULL, sentiment |-> NULL]

\* the outcome of one client.enrich call
Success(enr) == [kind |-> "ok", msg |-> NULL, enr |-> enr]
Failure(msg) == [kind |-> "fail", msg |-> msg, enr |-> NoEnrichment]
Outcomes == { Success(e) : e \in ModelResults } \cup { Failure(m) : m \in ErrMsgs }

\* ---------------------------------------------------------------------------
\* Configuration (monitor_config.json and the environment).  ingest_once reads
\* each source's `enabled` flag, and the mediastack key, once per call, in that
\* source's block; enrich_pending receives gemini_api_key, gemini_model,
\* batch_size and max_retries as arguments.  Every call draws these inputs.
\* ---------------------------------------------------------------------------
GeminiModel == "models/gemini-2.0-flash-lite"
ApiKeys == {NULL, "g-key"}
MediastackKeys == {NULL, "ms-key"}
\* batch_size and max_retries are int(...) of the configured values, unvalidated
BatchSizes == 0..MaxRows
RetryCounts == (0..MaxRetries) \cup {-1}

\* ---------------------------------------------------------------------------
\* State
\* ---------------------------------------------------------------------------
VARIABLES
    items,        \* the media_items table: id -> row
    cycle,        \* the worker cycle; also the clock read by now_iso()
    pc,           \* where the worker is in its cycle
    client,       \* enrich_pending: the api key of the GeminiClient, NULL for None
    max_retries,  \* enrich_pending: the argument max_retries
    pending,      \* enrich_pending: the rows returned by list_unenriched
    idx,          \* enrich_pending: position of `it` in pending
    content_text, \* enrich_pending: the local content_text of the current item
    last_error,   \* enrich_pending: the local last_error
    counts,       \* enrich_pending: the locals ok, err, skipped
    attempts,     \* "ok"/"fail" of the client.enrich calls for the current item, in order
    enrich_ret,   \* the dict returned by the last enrich_pending call
    ev,           \* the calls made by the latest step
    ingest_state  \* the ingest_state table: a set of rows (source, last_run_at, cursor)

vars == << items, cycle, pc, client, max_retries, pending, idx, content_text,
           last_error, counts, attempts, enrich_ret, ev, ingest_state >>

NoEv == [op |-> "none", enabled |-> FALSE, batch |-> << >>, ret |-> <<0, 0>>,
         outcome |-> Failure(NULL), content |-> NULL, limit |-> 0,
         item_id |-> NULL, failed |-> 0, source |-> NULL, state |-> {},
         query |-> << >>, rows |-> << >>, key |-> NULL, offline |-> FALSE,
         call |-> << >>, result |-> << >>, prev |-> << >>]

ZeroCounts == [ok |-> 0, err |-> 0, skipped |-> 0]
NoRet == [pending |-> -1, enriched_ok |-> 0, enriched_error |-> 0, skipped |-> 0]

Init ==
    /\ items = EmptyStore
    /\ cycle = 1
    /\ pc = "gdelt"
    /\ client = NULL
    /\ max_retries = 0
    /\ pending = << >>
    /\ idx = 0
    /\ content_text = NULL
    /\ last_error = NULL
    /\ counts = ZeroCounts
    /\ attempts = << >>
    /\ enrich_ret = NoRet
    /\ ev = NoEv
    /\ ingest_state = {}

EnrichLocals == << client, max_retries, pending, idx, content_text, last_error,
                   counts, attempts, enrich_ret >>

\* ---------------------------------------------------------------------------
\* media_monitor/pipeline.py: ingest_once, one action per source block
\* ---------------------------------------------------------------------------
\* items = normalize(...); ins, upd = store.upsert_items(items)
UpsertFrom(its, e) ==
    LET r == upsert_items(items, its)
    IN /\ Cardinality(DOMAIN r.store) <= MaxRows
       /\ items' = r.store
       /\ ev' = [e EXCEPT !.op = "upsert_items", !.enabled = TRUE, !.batch = its,
                          !.ret = <<r.inserted, r.updated>>]

Upsert(its) == UpsertFrom(its, NoEv)

\* the source's block is skipped: `enabled` is false
SkipSource == items' = items /\ ev' = NoEv

\* the adapter call raises (requests error, non-JSON reply, HTTP error status):
\* the exception leaves ingest_once and is caught by the worker's
\* `except Exception` (run_worker.py 54-55), which goes on to time.sleep
FetchRaises(source) ==
    /\ items' = items
    /\ pc' = "sleep"
    /\ ev' = [NoEv EXCEPT !.op = "fetch_raised", !.enabled = TRUE, !.source = source]

IngestGdelt ==
    /\ pc = "gdelt"
    /\ \/ /\ \E articles \in SeqUpTo(GdeltRaw, MaxFetch) :
               Upsert(normalize_gdelt(articles, cycle))
          /\ pc' = "mediastack"
       \/ SkipSource /\ pc' = "mediastack"
       \/ FetchRaises("gdelt")
    /\ UNCHANGED << ingest_state, cycle, EnrichLocals >>

\* the check with the offline flag the wrong way round
MediastackKeyMissing_WhenOffline(mediastack_key, offline_fixtures) ==
    ~Truthy(mediastack_key) /\ offline_fixtures

\* if not settings.mediastack_key and not offline_fixtures
MediastackKeyMissing(mediastack_key, offline_fixtures) ==
    ~Truthy(mediastack_key) /\ ~offline_fixtures

IngestMediastack ==
    /\ pc = "mediastack"
    /\ \/ \E mediastack_key \in MediastackKeys, offline_fixtures \in BOOLEAN :
            LET e == [NoEv EXCEPT !.key = mediastack_key, !.offline = offline_fixtures]
            IN IF MediastackKeyMissing(mediastack_key, offline_fixtures)
               THEN \* raise SystemExit("MEDIASTACK_KEY is required ...")
                    /\ pc' = "exit"
                    /\ items' = items
                    /\ ev' = [e EXCEPT !.op = "SystemExit", !.enabled = TRUE]
               ELSE \/ /\ pc' = "rss"
                       /\ \E rows \in SeqUpTo(MediastackRaw, MaxFetch) :
                              UpsertFrom(normalize_mediastack(rows, cycle), e)
                    \/ /\ ~offline_fixtures
                       /\ items' = items
                       /\ pc' = "sleep"
                       /\ ev' = [e EXCEPT !.op = "fetch_raised", !.enabled = TRUE,
                                          !.source = "mediastack"]
       \/ SkipSource /\ pc' = "rss"
    /\ UNCHANGED << ingest_state, cycle, EnrichLocals >>

IngestRss ==
    /\ pc = "rss"
    /\ \/ \E name \in FeedNames, entries \in SeqUpTo(RssRaw, MaxFetch) :
            Upsert(normalize_rss(<< <<name, entries>> >>, cycle))
       \/ SkipSource
    /\ pc' = "youtube"
    /\ UNCHANGED << ingest_state, cycle, EnrichLocals >>

IngestYoutube ==
    /\ pc = "youtube"
    /\ \/ \E name \in ChannelNames, entries \in SeqUpTo(YoutubeRaw, MaxFetch),
               stats_map \in StatsMaps :
            /\ Upsert(normalize_youtube(<< <<name, entries>> >>, stats_map, cycle))
            /\ pc' = "enrich"
       \/ SkipSource /\ pc' = "enrich"
       \/ FetchRaises("youtube_stats")
    /\ UNCHANGED << ingest_state, cycle, EnrichLocals >>

\* ---------------------------------------------------------------------------
\* media_monitor/preprocess/enrich.py: enrich_pending, one action per
\* collaborator call
\* ---------------------------------------------------------------------------
It == pending[idx]

\* the end of one iteration of `for it in pending`; after the last one the
\* function returns its counts
NextItem(c) ==
    IF idx = Len(pending)
    THEN /\ pc' = "sleep"
         /\ enrich_ret' = [pending |-> Len(pending), enriched_ok |-> c.ok,
                           enriched_error |-> c.err, skipped |-> c.skipped]
         /\ counts' = c
         /\ UNCHANGED << pending, idx >>
    ELSE /\ pc' = "fetch"
         /\ idx' = idx + 1
         /\ counts' = c
         /\ UNCHANGED << pending, enrich_ret >>

\* lines 167-181: pending = store.list_unenriched(limit=batch_size);
\* if not pending: return; client = GeminiClient(...) if gemini_api_key else None
EnrichStart ==
    /\ pc = "enrich"
    /\ \E batch_size \in BatchSizes :
       \E sel \in list_unenriched(items, batch_size) :
        /\ pending' = sel
        /\ ev' = [NoEv EXCEPT !.op = "list_unenriched", !.limit = batch_size]
        /\ IF sel = << >>
           THEN /\ pc' = "sleep"
                /\ idx' = 0
                /\ enrich_ret' = [pending |-> 0, enriched_ok |-> 0,
                                  enriched_error |-> 0, skipped |-> 0]
                /\ client' = NULL
                /\ max_retries' = 0
           ELSE /\ pc' = "fetch"
                /\ idx' = 1
                /\ enrich_ret' = NoRet
                /\ \E gemini_api_key \in ApiKeys :
                     client' = IF Truthy(gemini_api_key) THEN gemini_api_key ELSE NULL
                /\ max_retries' \in RetryCounts
    /\ counts' = ZeroCounts
    /\ attempts' = << >>
    /\ content_text' = NULL
    /\ last_error' = NULL
    /\ UNCHANGED << ingest_state, items, cycle >>

\* lines 184-195: the content step of one item
ItemFetch ==
    /\ pc = "fetch"
    /\ IF ~Truthy(It.content_text)
       THEN \E content \in FetchOutcomes :
              /\ ev' = [NoEv EXCEPT !.op = "fetch_article_text", !.content = content]
              /\ IF Truthy(content)
                 THEN /\ items' = update_content(items, It.id, content,
                                                 now_iso(cycle), "ok", NULL)
                      /\ content_text' = content
                 ELSE /\ items' = items
                      /\ content_text' = It.content_text
       ELSE /\ ev' = NoEv
            /\ items' = items
            /\ content_text' = It.content_text
    /\ pc' = "classify"
    /\ attempts' = << >>
    /\ last_error' = NULL
    /\ UNCHANGED << ingest_state, cycle, client, max_retries, pending, idx, counts, enrich_ret >>

\* line 215: skipped += 1
CountFallback_AsOk(c) == [c EXCEPT !.ok = @ + 1]

CountFallback(c) == [c EXCEPT !.skipped = @ + 1]

\* lines 199-216: the fallback path (client is None)
FallbackEnrich ==
    /\ pc = "classify"
    /\ client = NULL
    /\ LET enr == FallbackResults[<<It.title, It.summary>>]
       IN items' = update_enrichment(items, It.id, enr.topics, enr.actors,
                       enr.locations, enr.language, enr.is_editorial, enr.sentiment,
                       ModelDumpJson(enr), "fallback_keyword", "ok", NULL,
                       now_iso(cycle))
    /\ NextItem(CountFallback(counts))
    /\ ev' = [NoEv EXCEPT !.op = "fallback"]
    /\ UNCHANGED << ingest_state, cycle, client, max_retries, content_text, last_error, attempts >>

\* line 221: the number of iterations of range(max_retries + 1)
AttemptLimit_OneMore == max_retries + 2

AttemptLimit == max_retries + 1

\* the try body without `last_error = None`: the check after the loop then sees
\* an earlier attempt's failure
PersistOk_KeepsLastError(enr) ==
    IF Truthy(last_error)
    THEN /\ items' = update_enrichment(items, It.id, << >>, << >>, << >>, NULL, NULL,
                         NULL, "{}", GeminiModel, "error", last_error, now_iso(cycle))
         /\ last_error' = last_error
         /\ NextItem([counts EXCEPT !.ok = @ + 1, !.err = @ + 1])
    ELSE /\ items' = update_enrichment(items, It.id, enr.topics, enr.actors,
                         enr.locations, enr.language, enr.is_editorial, enr.sentiment,
                         ModelDumpJson(enr), GeminiModel, "ok", NULL, now_iso(cycle))
         /\ last_error' = NULL
         /\ NextItem([counts EXCEPT !.ok = @ + 1])

\* lines 229-245: the try body after client.enrich returned enr
PersistOk(enr) ==
    /\ items' = update_enrichment(items, It.id, enr.topics, enr.actors,
                    enr.locations, enr.language, enr.is_editorial, enr.sentiment,
                    ModelDumpJson(enr), GeminiModel, "ok", NULL, now_iso(cycle))
    /\ last_error' = NULL
    /\ NextItem([counts EXCEPT !.ok = @ + 1])

\* lines 249-264: after the retry loop ran out
AfterRetries(msg) ==
    IF Truthy(msg)
    THEN /\ items' = update_enrichment(items, It.id, << >>, << >>, << >>, NULL, NULL,
                         NULL, "{}", GeminiModel, "error", msg, now_iso(cycle))
         /\ NextItem([counts EXCEPT !.err = @ + 1])
    ELSE /\ items' = items
         /\ NextItem(counts)

\* lines 221-247: one iteration of `for _ in range(max_retries + 1)`, and what
\* follows the loop when this iteration ends it.  The store's writes are taken
\* to succeed: the only exception raised inside the try is client.enrich's.
ClassifyAttempt ==
    /\ pc = "classify"
    /\ client # NULL
    /\ Len(attempts) < AttemptLimit
    /\ \E o \in Outcomes :
        /\ attempts' = Append(attempts, o.kind)
        /\ ev' = [NoEv EXCEPT !.op = "client.enrich", !.outcome = o]
        /\ IF o.kind = "ok"
           THEN PersistOk(o.enr)
           ELSE /\ last_error' = o.msg
                /\ IF Len(attempts) + 1 = AttemptLimit
                   THEN AfterRetries(o.msg)
                   ELSE UNCHANGED << items, pc, pending, idx, counts, enrich_ret >>
    /\ UNCHANGED << ingest_state, cycle, client, max_retries, content_text >>

\* lines 220-249 when range(max_retries + 1) is empty: the loop body never runs,
\* last_error stays None and nothing is persisted for the item
NoAttempt ==
    /\ pc = "classify"
    /\ client # NULL
    /\ AttemptLimit <= 0
    /\ AfterRetries(last_error)
    /\ ev' = NoEv
    /\ UNCHANGED << ingest_state, cycle, client, max_retries, content_text, last_error, attempts >>

\* ---------------------------------------------------------------------------
\* scripts/run_worker.py: time.sleep(interval_s), then the next cycle
\* ---------------------------------------------------------------------------
Sleep ==
    /\ pc = "sleep"
    /\ cycle < MaxCycles
    /\ cycle' = cycle + 1
    /\ pc' = "gdelt"
    /\ client' = NULL
    /\ max_retries' = 0
    /\ pending' = << >>
    /\ idx' = 0
    /\ content_text' = NULL
    /\ last_error' = NULL
    /\ counts' = ZeroCounts
    /\ attempts' = << >>
    /\ enrich_ret' = NoRet
    /\ ev' = NoEv
    /\ UNCHANGED << ingest_state, items >>

\* ---------------------------------------------------------------------------
\* The Store API called directly (db/store.py is a public class): a driver that
\* applies upsert_items, update_enrichment and update_content to any arguments
\* ---------------------------------------------------------------------------
\* the protected-field set as the design states it
ProtectedSet ==
    { "topics", "actors", "locations", "language", "is_editorial", "sentiment",
      "tags_json", "content_text", "content_fetched_at", "content_status",
      "content_hash", "enriched_at", "enrich_model", "enrich_status", "enrich_error" }

\* a record that carries a value of its own for every protected field
Carrying(it) ==
    [k \in DOMAIN it |-> IF k \in ProtectedSet THEN "in:" \o k ELSE it[k]]

\* records passed to upsert_items: normalizer output as it is, and normalizer
\* output carrying protected values
ApiRecords ==
    { GdeltItems[1][a] : a \in { r \in GdeltRaw : r.seendate = "20251230T070000Z" } }
    \cup { Carrying(GdeltItems[1][a]) : a \in { r \in GdeltRaw : r.seendate # "20251230T070000Z" } }

\* arguments passed to update_enrichment: enr, status, error, enriched_at
ApiEnrichArgs ==
    { [enr |-> CHOOSE e \in ModelResults : e.language # NULL,
       status |-> "ok", error |-> NULL, enriched_at |-> now_iso(1)],
      [enr |-> CHOOSE e \in ModelResults : e.language = NULL,
       status |-> "error", error |-> "503 Server Error", enriched_at |-> now_iso(1)],
      [enr |-> CHOOSE e \in ModelResults : e.language # NULL,
       status |-> "ok", error |-> NULL, enriched_at |-> NULL] }

ApiIds == { r.id : r \in ApiRecords } \cup { "sha256:absent" }

InitStore ==
    /\ Init!1 /\ Init!2
    /\ pc = "api"
    /\ Init!4 /\ Init!5 /\ Init!6 /\ Init!7 /\ Init!8 /\ Init!9
    /\ Init!10 /\ Init!11 /\ Init!12 /\ Init!13 /\ Init!14

\* the call before the one a step makes
PrevCall == IF ev.op = "none" THEN << >> ELSE << [call |-> ev.call, result |-> ev.result] >>

\* a Store method touches the table only; the caller keeps no earlier result
ApiFrame ==
    /\ pending' = << >>
    /\ UNCHANGED << ingest_state, cycle, pc, client, max_retries, idx, content_text, last_error,
                    counts, attempts, enrich_ret >>

ApiUpsertItems ==
    /\ pc = "api"
    /\ \E its \in SeqUpTo(ApiRecords, MaxFetch) : Upsert(its)
    /\ ApiFrame

ApiUpdateEnrichment ==
    /\ pc = "api"
    /\ \E item_id \in ApiIds, a \in ApiEnrichArgs :
         /\ items' = update_enrichment(items, item_id, a.enr.topics, a.enr.actors,
                         a.enr.locations, a.enr.language, a.enr.is_editorial,
                         a.enr.sentiment, ModelDumpJson(a.enr), GeminiModel,
                         a.status, a.error, a.enriched_at)
         /\ ev' = [NoEv EXCEPT !.op = "update_enrichment", !.item_id = item_id]
    /\ ApiFrame

ApiUpdateContent ==
    /\ pc = "api"
    /\ \E item_id \in ApiIds, content_hash \in { NULL, "", "sha256:other" } :
         /\ items' = update_content(items, item_id, "Isi artikel", now_iso(cycle),
                                    "ok", content_hash)
         /\ ev' = [NoEv EXCEPT !.op = "update_content", !.item_id = item_id,
                                !.call = <<content_hash>>]
    /\ ApiFrame

ApiListUnenriched ==
    /\ pc = "api"
    /\ \E limit \in 0..(MaxRows + 1) :
       \E sel \in list_unenriched(items, limit) :
         /\ pending' = sel
         /\ ev' = [NoEv EXCEPT !.op = "list_unenriched", !.limit = limit]
    /\ UNCHANGED << ingest_state, items, cycle, pc, client, max_retries, idx, content_text,
                    last_error, counts, attempts, enrich_ret >>

\* upsert_items raising while it applies record k of the batch
ApiUpsertItemsRaises ==
    /\ pc = "api"
    /\ \E its \in SeqUpTo(ApiRecords, MaxFetch) :
       \E k \in 1..Len(its) :
         /\ items' = upsert_items_raises(items, its, k)
         /\ ev' = [NoEv EXCEPT !.op = "upsert_items_raised", !.batch = its, !.failed = k]
    /\ ApiFrame

NextStore ==
    \/ ApiUpsertItems
    \/ ApiUpdateEnrichment
    \/ ApiUpdateContent
    \/ ApiListUnenriched

SpecStore == InitStore /\ [][NextStore]_vars

\* arguments of query_items
QueryArgs ==
    [since_iso : { NULL, "2025-12-30T07:00:00+00:00" },
     topics_any : { << >>, <<"ekonomi", "hukum">> },
     platform : { NULL, "gdelt" },
     publisher : { NULL, "kompas" },
     limit : 1..MaxRows]

ApiQueryItems ==
    /\ pc = "api"
    /\ \E q \in QueryArgs :
       \E rows \in query_items(items, q.since_iso, q.topics_any, q.platform,
                               q.publisher, q.limit) :
         ev' = [NoEv EXCEPT !.op = "query_items", !.query = q, !.rows = rows]
    /\ items' = items
    /\ ApiFrame

\* writes to the table and queries over it
NextQuery ==
    \/ ApiUpsertItems
    \/ ApiUpdateEnrichment
    \/ ApiQueryItems

SpecQuery == InitStore /\ [][NextQuery]_vars

\* upsert_items calls that return and upsert_items calls that raise
NextUpsert ==
    \/ ApiUpsertItems
    \/ ApiUpsertItemsRaises

SpecUpsert == InitStore /\ [][NextUpsert]_vars

\* ---------------------------------------------------------------------------
\* The ingest-state API of the Store called directly
\* ---------------------------------------------------------------------------
StateSources == {"gdelt", "rss"}

StateFrame ==
    UNCHANGED << items, cycle, pc, client, max_retries, pending, idx, content_text,
                 last_error, counts, attempts, enrich_ret >>

ApiSetState ==
    /\ pc = "api"
    /\ \E source \in StateSources, last_run_at \in {NULL, now_iso(1), now_iso(2)},
          cursor \in {NULL, "page-2"} :
         /\ ingest_state' = set_state(ingest_state, source, last_run_at, cursor)
         /\ ev' = [NoEv EXCEPT !.op = "set_state", !.source = source,
                               !.state = { StateRow(source, last_run_at, cursor) }]
    /\ StateFrame

ApiGetState ==
    /\ pc = "api"
    /\ \E source \in StateSources :
         ev' = [NoEv EXCEPT !.op = "get_state", !.source = source,
                            !.state = get_state(ingest_state, source)]
    /\ ingest_state' = ingest_state
    /\ StateFrame

NextState ==
    \/ ApiSetState
    \/ ApiGetState

SpecState == InitStore /\ [][NextState]_vars

\* ---------------------------------------------------------------------------
\* scripts/run_once.py on a fresh database: ingest_once, then one call of
\* enrich_pending.  The initial states are the stores ingest_once can leave
\* (the four source blocks in order, each enabled or not), and the steps are
\* those of the enrichment pass.
\* ---------------------------------------------------------------------------
\* the stores after one source block, from the stores S before it
AfterBlock(S, batches) ==
    S \cup { st \in { upsert_items(s0, b).store : s0 \in S, b \in batches } :
               Cardinality(DOMAIN st) <= MaxRows }

IngestedStores ==
    LET gd == { normalize_gdelt(a, 1) : a \in SeqUpTo(GdeltRaw, MaxFetch) }
        ms == { normalize_mediastack(r, 1) : r \in SeqUpTo(MediastackRaw, MaxFetch) }
        rs == { normalize_rss(<< <<n, e>> >>, 1) :
                  n \in FeedNames, e \in SeqUpTo(RssRaw, MaxFetch) }
        yt == { normalize_youtube(<< <<n, e>> >>, m, 1) :
                  n \in ChannelNames, e \in SeqUpTo(YoutubeRaw, MaxFetch), m \in StatsMaps }
    IN AfterBlock(AfterBlock(AfterBlock(AfterBlock({EmptyStore}, gd), ms), rs), yt)

InitEnrich ==
    /\ items \in IngestedStores
    /\ Init!2
    /\ pc = "enrich"
    /\ Init!4 /\ Init!5 /\ Init!6 /\ Init!7 /\ Init!8 /\ Init!9
    /\ Init!10 /\ Init!11 /\ Init!12 /\ Init!13 /\ Init!14

NextEnrich ==
    \/ EnrichStart
    \/ ItemFetch
    \/ FallbackEnrich
    \/ ClassifyAttempt
    \/ NoAttempt

SpecEnrich == InitEnrich /\ [][NextEnrich]_vars

\* ---------------------------------------------------------------------------
\* enrich_pending on stores in which an earlier pass has fetched the content
\* of some rows without persisting an enrichment for them (the pass made no
\* attempt, or its last error message was empty): those rows are pending
\* again and carry content_text
\* ---------------------------------------------------------------------------
Fetched(row) ==
    [row EXCEPT !.content_text = "Isi artikel", !.content_fetched_at = now_iso(1),
                !.content_status = "ok"]

FetchedStores ==
    LET gd == { normalize_gdelt(a, 1) : a \in SeqUpTo(GdeltRaw, MaxFetch) }
    IN { [id \in DOMAIN st |-> IF id \in done THEN Fetched(st[id]) ELSE st[id]] :
           st \in AfterBlock({EmptyStore}, gd), done \in SUBSET { "sha256:gdelt|http://a/1" } }

InitContent ==
    /\ items \in FetchedStores
    /\ Init!2
    /\ pc = "enrich"
    /\ Init!4 /\ Init!5 /\ Init!6 /\ Init!7 /\ Init!8 /\ Init!9
    /\ Init!10 /\ Init!11 /\ Init!12 /\ Init!13 /\ Init!14

SpecContent == InitContent /\ [][NextEnrich]_vars

\* ---------------------------------------------------------------------------
\* enrich_pending called again and again with no ingestion in between
\* (run_once.py --enrich-only, run after run).  The clock stops at MaxCycles.
\* The process is single-threaded and every collaborator call returns or
\* raises, so a step that can be taken is taken: weak fairness on the steps.
\* ---------------------------------------------------------------------------
NextPass ==
    /\ pc = "sleep"
    /\ pc' = "enrich"
    /\ cycle' = IF cycle < MaxCycles THEN cycle + 1 ELSE cycle
    /\ client' = NULL
    /\ max_retries' = 0
    /\ pending' = << >>
    /\ idx' = 0
    /\ content_text' = NULL
    /\ last_error' = NULL
    /\ counts' = ZeroCounts
    /\ attempts' = << >>
    /\ enrich_ret' = NoRet
    /\ ev' = NoEv
    /\ UNCHANGED << ingest_state, items >>

NextPasses ==
    \/ EnrichStart
    \/ ItemFetch
    \/ FallbackEnrich
    \/ ClassifyAttempt
    \/ NoAttempt
    \/ NextPass

SpecPasses == InitContent /\ [][NextPasses]_vars /\ WF_vars(NextPasses)

Next ==
    \/ IngestGdelt
    \/ IngestMediastack
    \/ IngestRss
    \/ IngestYoutube
    \/ EnrichStart
    \/ ItemFetch
    \/ FallbackEnrich
    \/ ClassifyAttempt
    \/ NoAttempt
    \/ Sleep

Spec == Init /\ [][Next]_vars

\* ---------------------------------------------------------------------------
\* normalize_gdelt followed by upsert_items, as in the gdelt block of
\* ingest_once, on batches that hold malformed articles
\* ---------------------------------------------------------------------------
MalformedBatches ==
    SeqUpTo(GdeltMalformed \cup { a \in GdeltRaw : a.url = NULL \/ a.title # NULL }, MaxFetch)

ApiNormalizeGdelt ==
    /\ pc = "api"
    /\ \E articles \in MalformedBatches :
         UpsertFrom(normalize_gdelt(articles, cycle), [NoEv EXCEPT !.call = articles])
    /\ ApiFrame

NextNormalize == ApiNormalizeGdelt

SpecNormalize == InitStore /\ [][NextNormalize]_vars

\* ---------------------------------------------------------------------------
\* _fallback_keyword_enrichment called directly, again and again
\* ---------------------------------------------------------------------------
\* a second taxonomy: a topic with locations only, a topic with both lists
TaxonomyB ==
    [ topics |-> << [name |-> "daerah", keywords |-> << >>,
                     locations |-> <<"Jakarta">>],
                    [name |-> "hukum", keywords |-> <<"korupsi">>,
                     locations |-> <<"Bandung", "Jakarta">>] >>,
      actors |-> << >> ]

FnTaxonomies == { Taxonomy, TaxonomyB }

\* title and summary of the items passed to the classifier
FnTexts ==
    { <<"Skandal korupsi", NULL>>, <<"Kabar baik", "tanpa korupsi">>,
      <<"Apresiasi publik", NULL>>, <<"Harga naik", "di Jakarta dan Bandung">>,
      <<"Harga naik", NULL>>, <<NULL, NULL>>,
      <<"Menurut saya KPK", "<b>OPINI</b> hukum">>, <<"Korupsi di JAKARTA", NULL>> }

\* the rows passed: the same text with and without fetched content
FnItems ==
    { [BlankRow(_make_id("rss", c)) EXCEPT !.title = ts[1], !.summary = ts[2],
                                           !.content_text = c] :
        ts \in FnTexts, c \in { NULL, "Isi baik dan buruk" } }

\* _fallback_keyword_enrichment over the arguments of the model, computed once
FnResults ==
    [taxonomy \in FnTaxonomies |->
        [it \in FnItems |-> _fallback_keyword_enrichment(it, taxonomy)]]

CallFallback ==
    /\ pc = "api"
    /\ \E taxonomy \in FnTaxonomies, it \in FnItems :
         ev' = [NoEv EXCEPT !.op = "_fallback_keyword_enrichment",
                            !.call = <<taxonomy, it>>,
                            !.result = FnResults[taxonomy][it],
                            !.prev = PrevCall]
    /\ items' = items
    /\ ApiFrame

NextFallback == CallFallback

SpecFallback == InitStore /\ [][NextFallback]_vars

\* ---------------------------------------------------------------------------
\* _make_id called directly, again and again: ev holds the latest call and, in
\* prev, the call before it
\* ---------------------------------------------------------------------------
\* the url argument is a str at every call site (`a.get("url") or ""`)
IdUrls == { "", "/", "http://a/1", "http://a/1/", "http://a/2", "|http://a/1" }

PlatformSet == { Platforms[i] : i \in 1..Len(Platforms) }

CallMakeId ==
    /\ pc = "api"
    /\ \E platform \in PlatformSet, url \in IdUrls :
         ev' = [NoEv EXCEPT !.op = "_make_id", !.call = <<platform, url>>,
                            !.result = _make_id(platform, url), !.prev = PrevCall]
    /\ items' = items
    /\ ApiFrame

NextMakeId == CallMakeId

SpecMakeId == InitStore /\ [][NextMakeId]_vars

\* ---------------------------------------------------------------------------
\* scripts/run_once.py on a fresh database, step by step: ingest_once, then
\* one call of enrich_pending, then main returns.  pc = "sleep" stands for the
\* end of the run (main returned, or an exception ended the process) and
\* pc = "exit" for SystemExit; there is no next cycle.
\* ---------------------------------------------------------------------------
NextOnce ==
    \/ IngestGdelt
    \/ IngestMediastack
    \/ IngestRss
    \/ IngestYoutube
    \/ EnrichStart
    \/ ItemFetch
    \/ FallbackEnrich
    \/ ClassifyAttempt
    \/ NoAttempt

SpecOnce == Init /\ [][NextOnce]_vars

\* ---------------------------------------------------------------------------
\* Properties
\* ---------------------------------------------------------------------------
\* the number of items of the current pass whose loop iteration has ended
DoneCount ==
    IF pc = "sleep" THEN Len(pending)
    ELSE IF pc \in {"fetch", "classify"} THEN idx - 1
    ELSE 0

\* the row of the item whose loop iteration ended last
LastDone == items[pending[DoneCount].id]

\* C1: upsert_items leaves every protected field of every row that already
\* exists exactly as it was, whatever the incoming record carries; so an
\* enrichment written by update_enrichment survives any later upsert_items.
C1_UpsertKeepsProtected ==
    [][ ev'.op = "upsert_items" =>
          \A id \in DOMAIN items :
             /\ id \in DOMAIN items'
             /\ \A f \in ProtectedSet : items'[id][f] = items[id][f] ]_vars

C1_Witness ==
    /\ ev.op = "upsert_items"
    /\ \E i \in 1..Len(ev.batch) :
         /\ ev.batch[i].topics = "in:topics"
         /\ ev.batch[i].enriched_at = "in:enriched_at"
         /\ ev.ret[2] >= 1
         /\ items[ev.batch[i].id].enrich_model = GeminiModel
         /\ items[ev.batch[i].id].enriched_at = now_iso(1)
         /\ items[ev.batch[i].id].topics = "[\"hukum\"]"
         /\ items[ev.batch[i].id].title = ev.batch[i].title

\* C2: two separate upsert_items calls with one record each of the same
\* (platform, url), on a store that starts empty: the first returns (1, 0), the
\* second (0, 1), the store holds exactly that one row and its title is the
\* second call's.
C2_SecondCallUpdates ==
    [][ (ev'.op = "upsert_items" /\ Len(ev'.batch) = 1) =>
          LET rec == ev'.batch[1]
          IN /\ rec.id = _make_id(rec.platform, rec.url)
             /\ items = EmptyStore =>
                  /\ ev'.ret = <<1, 0>>
                  /\ DOMAIN items' = {rec.id}
                  /\ items'[rec.id].title = rec.title
             /\ DOMAIN items = {rec.id} =>
                  /\ ev'.ret = <<0, 1>>
                  /\ DOMAIN items' = {rec.id}
                  /\ items'[rec.id].title = rec.title ]_vars

C2_Witness ==
    /\ ev.op = "upsert_items"
    /\ Len(ev.batch) = 1
    /\ ev.ret = <<0, 1>>
    /\ DOMAIN items = {ev.batch[1].id}
    /\ ev.batch[1].platform = "gdelt"
    /\ ev.batch[1].title = "Kabar baik & opini"
    /\ items[ev.batch[1].id].title = ev.batch[1].title
    /\ items[ev.batch[1].id].content_hash = _content_hash("Skandal korupsi", NULL)

\* C3: in every reachable state list_unenriched(limit) returns only rows whose
\* enriched_at is null and at most limit of them; when limit is at least the
\* number of such rows, an item is returned if and only if its enriched_at is
\* null.
Unenriched == { id \in DOMAIN items : items[id].enriched_at = NULL }

SelectionOk(rows, limit) ==
    /\ Len(rows) <= limit
    /\ \A i \in 1..Len(rows) :
         /\ rows[i].id \in DOMAIN items
         /\ rows[i] = items[rows[i].id]
         /\ rows[i].enriched_at = NULL
    /\ \A i, j \in 1..Len(rows) : rows[i].id = rows[j].id => i = j
    /\ limit >= Cardinality(Unenriched) => { rows[i].id : i \in 1..Len(rows) } = Unenriched

C3_ListUnenrichedIsPendingSet ==
    /\ \A limit \in 0..(MaxRows + 1) :
          \A rows \in list_unenriched(items, limit) : SelectionOk(rows, limit)
    /\ ev.op = "list_unenriched" => SelectionOk(pending, ev.limit)

C3_Witness ==
    /\ ev.op = "list_unenriched"
    /\ Len(pending) = 1
    /\ ev.limit >= 1
    /\ Cardinality(DOMAIN items) = 2
    /\ Cardinality(Unenriched) = 1

\* C4: every item that enrich_pending selects in a pass has enriched_at
\* non-null when that pass returns (stated for the passes that make at least
\* one attempt per item, max_retries >= 0).
C4_SelectedAreEnrichedAtReturn ==
    (pc = "sleep" /\ max_retries >= 0) =>
       \A i \in 1..Len(pending) : items[pending[i].id].enriched_at # NULL

\* C5: once an item's enriched_at is non-null, no ingestion, content update or
\* enrichment pass changes it or the item's terminal status again, and
\* list_unenriched never selects the item again.
C5_EnrichedIsAbsorbing ==
    [][ \A id \in DOMAIN items :
          items[id].enriched_at # NULL =>
             /\ id \in DOMAIN items'
             /\ items'[id].enriched_at = items[id].enriched_at
             /\ items'[id].enrich_status = items[id].enrich_status
             /\ items'[id].enrich_model = items[id].enrich_model
             /\ items'[id].enrich_error = items[id].enrich_error
             /\ ev'.op = "list_unenriched" =>
                   \A i \in 1..Len(pending') : pending'[i].id # id ]_vars

C5_Witness ==
    /\ cycle = 2
    /\ ev.op = "upsert_items"
    /\ \E i \in 1..Len(ev.batch) :
         /\ items[ev.batch[i].id].enriched_at = now_iso(1)
         /\ items[ev.batch[i].id].ingested_at = now_iso(2)

\* C6: with a credential, when client.enrich fails on every one of the
\* max_retries + 1 attempts for an item, the item is persisted with
\* enrich_status "error", enrich_error the last failure's message, empty
\* topics/actors/locations, null language/is_editorial/sentiment and a
\* non-null enriched_at, whatever the message is.
C6_AllFailedPersistsError ==
    (client # NULL /\ ev.op = "client.enrich" /\ ev.outcome.kind = "fail"
        /\ Len(attempts) = max_retries + 1) =>
       /\ LastDone.enrich_status = "error"
       /\ LastDone.enrich_error = ev.outcome.msg
       /\ LastDone.topics = "[]"
       /\ LastDone.actors = "[]"
       /\ LastDone.locations = "[]"
       /\ LastDone.language = NULL
       /\ LastDone.is_editorial = NULL
       /\ LastDone.sentiment = NULL
       /\ LastDone.enriched_at # NULL

AttemptsOrdered ==
    /\ Len(attempts) <= max_retries + 1
    /\ \A k \in 1..(Len(attempts) - 1) : attempts[k] = "fail"

C9_NoCredentialUsesFallback ==
    (client = NULL) =>
       /\ ev.op # "client.enrich"
       /\ attempts = << >>
       /\ counts.skipped = DoneCount
       /\ counts.ok = 0 /\ counts.err = 0
       /\ pc = "sleep" /\ pending # << >> => enrich_ret.skipped = Len(pending)
       /\ \A i \in 1..DoneCount :
            LET r == items[pending[i].id]
                e == FallbackResults[<<pending[i].title, pending[i].summary>>]
            IN /\ r.enrich_model = "fallback_keyword"
               /\ r.enriched_at # NULL
               /\ r.topics = JsonList(e.topics)
               /\ r.actors = JsonList(e.actors)
               /\ r.locations = JsonList(e.locations)
               /\ r.language = e.language
               /\ r.is_editorial = e.is_editorial
               /\ r.sentiment = e.sentiment

C9_Witness ==
    /\ client = NULL
    /\ pc = "sleep"
    /\ Len(pending) = 2
    /\ enrich_ret.skipped = 2
    /\ \E i \in 1..2 : items[pending[i].id].sentiment = "negative"

\* C10: the enrich_status persisted through the fallback path differs from the
\* enrich_status persisted for an item a real model classified successfully.
C10_FallbackStatusDistinct ==
    \A a, b \in DOMAIN items :
       ( /\ items[a].enrich_model = "fallback_keyword"
         /\ items[b].enrich_model = GeminiModel
         /\ items[b].enrich_error = NULL
         /\ items[b].enriched_at # NULL ) =>
          items[a].enrich_status # items[b].enrich_status

\* the records of a batch that carry the id, and the last of them
Occurrences(batch, id) == { i \in 1..Len(batch) : batch[i].id = id }

LastOccurrence(batch, id) ==
    batch[CHOOSE i \in Occurrences(batch, id) : \A j \in Occurrences(batch, id) : j <= i]

\* C11: raw_json is write-once: an upsert_items call that updates a row leaves
\* the row's raw_json at the value written when the row was inserted.
C11_RawJsonWriteOnce ==
    [][ ev'.op = "upsert_items" =>
          \A id \in DOMAIN items :
             id \in DOMAIN items' /\ items'[id].raw_json = items[id].raw_json ]_vars

\* C12: on an existing row upsert_items refuses to overwrite exactly the 15
\* protected fields; every other field the incoming record carries,
\* signals_json included, takes the incoming value.
C12_ExactlyProtectedSetKept ==
    [][ ev'.op = "upsert_items" =>
          \A id \in DOMAIN items :
             Occurrences(ev'.batch, id) # {} =>
                \A f \in DOMAIN items[id] :
                   IF f \in ProtectedSet
                   THEN items'[id][f] = items[id][f]
                   ELSE items'[id][f] = LastOccurrence(ev'.batch, id)[f] ]_vars

\* C13: when the same id appears twice in one upsert_items batch and was not
\* stored before, the call counts one insert and one update, one row results
\* and its non-protected fields hold the values of the last occurrence.
C13_DuplicateInBatchLastWins ==
    [][ ( /\ ev'.op = "upsert_items"
          /\ Len(ev'.batch) = 2
          /\ ev'.batch[1].id = ev'.batch[2].id
          /\ ev'.batch[1].id \notin DOMAIN items ) =>
          LET id == ev'.batch[1].id
          IN /\ ev'.ret = <<1, 1>>
             /\ DOMAIN items' = DOMAIN items \cup {id}
             /\ \A f \in DOMAIN items'[id] :
                  f \notin ProtectedSet => items'[id][f] = ev'.batch[2][f] ]_vars

\* C14: each item's upsert is its own atomic unit: when upsert_items fails
\* while applying record k, the inserts and updates of records 1..k-1 are
\* persisted.
C14_PrefixPersistedOnFailure ==
    [][ ev'.op = "upsert_items_raised" =>
          items' = upsert_items(items, SubSeq(ev'.batch, 1, ev'.failed - 1)).store ]_vars

\* C15: update_content and update_enrichment with an item_id that is not in
\* the store raise nothing, create no row and leave every row unchanged.
C15_AbsentIdIsNoOp ==
    [][ ( /\ ev'.op \in {"update_content", "update_enrichment"}
          /\ ev'.item_id \notin DOMAIN items ) =>
          items' = items ]_vars

C15_Witness ==
    /\ ev.op = "update_content"
    /\ ev.item_id \notin DOMAIN items
    /\ \E id \in DOMAIN items : items[id].enriched_at # NULL

\* C16: set_state inserts a row when the source has none and otherwise
\* overwrites last_run_at and cursor; get_state returns the values of the most
\* recent set_state for the source (none before the first), there is at most
\* one row per source and the rows of other sources are unchanged.
C16_StateIsKeyedUpsert ==
    [][ /\ ev'.op = "set_state" =>
             /\ get_state(ingest_state', ev'.source) = ev'.state
             /\ \A other \in StateSources \ {ev'.source} :
                  get_state(ingest_state', other) = get_state(ingest_state, other)
        /\ ev'.op # "set_state" => ingest_state' = ingest_state
        /\ ev'.op = "get_state" =>
             /\ ev'.state = get_state(ingest_state, ev'.source)
             /\ Cardinality(ev'.state) <= 1
        /\ \A r1, r2 \in ingest_state' : r1.source = r2.source => r1 = r2 ]_vars

C16_Witness ==
    /\ ev.op = "get_state"
    /\ ev.source = "gdelt"
    /\ ev.state = { StateRow("gdelt", now_iso(2), NULL) }
    /\ get_state(ingest_state, "rss") = { StateRow("rss", NULL, "page-2") }

\* C17: after an ingestion run in which a source is enabled, an IngestState
\* row exists for that source.
C17_IngestRunRecordsState ==
    (pc = "enrich" /\ ev.op = "upsert_items" /\ ev.enabled) =>
       get_state(ingest_state, "youtube") # {}

\* C19: the worker never terminates because of an error raised inside a
\* cycle, a required-credential failure included.
C19_WorkerNeverExits == pc # "exit"

\* C20: a failure of one source adapter never aborts the ingestion run: the
\* failing source contributes nothing and the sources after it still run.
C20_AdapterFailureKeepsRunGoing ==
    [][ ev'.op = "fetch_raised" =>
          /\ items' = items
          /\ pc = "gdelt" => pc' = "mediastack"
          /\ pc = "mediastack" => pc' = "rss"
          /\ pc = "youtube" => pc' = "enrich" ]_vars

\* C18: query_items applies limit before the topics_any filter: its result is
\* exactly the rows, among the first `limit` rows matching since/platform/
\* publisher, whose stored topic list intersects topics_any; so it has at most
\* `limit` rows and can omit matching rows beyond the window; null and
\* undecodable topics count as no topics.
StoredTopics(row) ==
    IF row.topics = NULL \/ row.topics = "" THEN {}
    ELSE IF json_loads(row.topics) = JsonRaises THEN {}
    ELSE { json_loads(row.topics)[i] : i \in 1..Len(json_loads(row.topics)) }

Intersects(row, topics_any) ==
    StoredTopics(row) \cap { topics_any[i] : i \in 1..Len(topics_any) } # {}

\* rows is what is left of some window of `limit` matching rows after the
\* topics filter
FilteredWindow(rows, q) ==
    LET base == { id \in DOMAIN items :
                    QueryMatches(items[id], q.since_iso, q.platform, q.publisher) }
        n == Min(q.limit, Cardinality(base))
    IN \E win \in SUBSET base :
         /\ Cardinality(win) = n
         /\ { rows[i].id : i \in 1..Len(rows) } =
               { id \in win : Intersects(items[id], q.topics_any) }
         /\ \A i \in 1..Len(rows) : rows[i] = items[rows[i].id]
         /\ \A i, j \in 1..Len(rows) : rows[i].id = rows[j].id => i = j

C18_LimitBeforeTopicFilter ==
    (ev.op = "query_items" /\ ev.query.topics_any # << >>) =>
       LET q == ev.query
           base == { id \in DOMAIN items :
                       QueryMatches(items[id], q.since_iso, q.platform, q.publisher) }
           res == query_items(items, q.since_iso, q.topics_any, q.platform,
                              q.publisher, q.limit)
       IN /\ FilteredWindow(ev.rows, q)
          /\ Len(ev.rows) <= q.limit
          /\ \A win \in SUBSET base :
                Cardinality(win) = Min(q.limit, Cardinality(base)) =>
                   \E rows \in res :
                      { rows[i].id : i \in 1..Len(rows) } =
                         { id \in win : Intersects(items[id], q.topics_any) }

C18_Witness ==
    /\ ev.op = "query_items"
    /\ ev.query.topics_any = <<"ekonomi", "hukum">>
    /\ ev.query.limit = 1
    /\ ev.query.platform = "gdelt"
    /\ ev.rows = << >>
    /\ \E id \in DOMAIN items :
         /\ QueryMatches(items[id], ev.query.since_iso, ev.query.platform, ev.query.publisher)
         /\ Intersects(items[id], ev.query.topics_any)
    /\ \E id \in DOMAIN items : items[id].topics = "in:topics"

\* C21: in a one-shot run with mediastack enabled, no mediastack key and no
\* offline fixtures, the run ends with SystemExit in the mediastack block
\* before the adapter is called (the table is as the gdelt block left it), and
\* nothing runs after it: rss and youtube are not ingested and enrich_pending
\* is never started.
C21_MissingKeyAbortsRun ==
    [][ /\ ( /\ pc = "mediastack"
             /\ ev'.enabled
             /\ ~Truthy(ev'.key)
             /\ ~ev'.offline ) =>
                /\ pc' = "exit"
                /\ ev'.op = "SystemExit"
                /\ items' = items
                /\ UNCHANGED EnrichLocals
        /\ pc = "exit" => FALSE ]_vars

C21_Witness ==
    /\ pc = "exit"
    /\ ev.op = "SystemExit"
    /\ ev.key = NULL
    /\ ~ev.offline
    /\ items # EmptyStore
    /\ \A id \in DOMAIN items : items[id].platform = "gdelt"
    /\ pending = << >>
    /\ enrich_ret = NoRet

\* C22: _make_id is a pure function of (platform, url), injective on the
\* platform enum and string urls: of two calls, the ids are equal exactly when
\* both the platform and the url are equal (a trailing slash makes a different id).
C22_MakeIdPureInjective ==
    (ev.op = "_make_id" /\ Len(ev.prev) = 1) =>
       /\ ev.call = ev.prev[1].call => ev.result = ev.prev[1].result
       /\ ev.call # ev.prev[1].call => ev.result # ev.prev[1].result
       /\ \A p \in PlatformSet, u \in IdUrls :
            (_make_id(p, u) = ev.result) <=> (<<p, u>> = ev.call)

C22_Witness ==
    /\ ev.op = "_make_id"
    /\ Len(ev.prev) = 1
    /\ ev.prev[1].call = <<"rss", "http://a/1">>
    /\ ev.call = <<"rss", "http://a/1/">>
    /\ ev.result # ev.prev[1].result

\* C23: malformed raw records are never dropped: normalizing and upserting a
\* batch of gdelt articles into an empty store leaves one row per raw record
\* with distinct content, and a row made from an article without a url has a
\* null url.
RawRecords(batch) == { batch[i] : i \in 1..Len(batch) }

C23_MalformedNeverDropped ==
    [][ (ev'.op = "upsert_items" /\ items = EmptyStore) =>
          /\ Cardinality(DOMAIN items') = Cardinality(RawRecords(ev'.call))
          /\ \A a \in RawRecords(ev'.call) :
               ~Truthy(a.url) =>
                  \E id \in DOMAIN items' :
                     items'[id].url = NULL /\ items'[id].title = CleanOrNone(a.title) ]_vars

\* the text of the item of the latest classifier call, and its markers
CallText ==
    Lower(clean_text(Or(ev.call[2].title, "")) \o " "
          \o clean_text(Or(ev.call[2].summary, "")), 1)

HasPositive == \E i \in 1..Len(PositiveMarkers) : Contains(CallText, PositiveMarkers[i])
HasNegative == \E i \in 1..Len(NegativeMarkers) : Contains(CallText, NegativeMarkers[i])

\* C24: the fallback sentiment is neutral without markers, positive with only
\* positive markers, negative with only negative markers, and negative when
\* both a positive and a negative marker occur (negative overrides).
C24_NegativeOverrides ==
    ev.op = "_fallback_keyword_enrichment" =>
       ev.result.sentiment =
          IF HasNegative THEN "negative"
          ELSE IF HasPositive THEN "positive"
          ELSE "neutral"

\* C25: the fallback classifier assigns a topic exactly when its keyword list
\* is empty or has a keyword in the text, and its location list is empty or
\* has a location in the text; a topic with both lists empty is always
\* assigned; the assigned topics are topics of the taxonomy, in its order.
TopicMatches(spec) ==
    /\ \/ Len(spec.keywords) = 0
       \/ \E i \in 1..Len(spec.keywords) : Contains(CallText, Lower(spec.keywords[i], 1))
    /\ \/ Len(spec.locations) = 0
       \/ \E i \in 1..Len(spec.locations) : Contains(CallText, Lower(spec.locations[i], 1))

C25_TopicAssignedIffListsMatch ==
    ev.op = "_fallback_keyword_enrichment" =>
       LET specs == ev.call[1].topics
           got == ev.result.topics
           pos(name) == CHOOSE i \in 1..Len(specs) : specs[i].name = name
       IN /\ \A i \in 1..Len(specs) :
               (\E j \in 1..Len(got) : got[j] = specs[i].name) <=> TopicMatches(specs[i])
          /\ \A j \in 1..Len(got) : \E i \in 1..Len(specs) : specs[i].name = got[j]
          /\ \A j, k \in 1..Len(got) : j < k => pos(got[j]) < pos(got[k])

C25_Witness ==
    /\ ev.op = "_fallback_keyword_enrichment"
    /\ ev.call[1] = Taxonomy
    /\ ev.call[2].title = "Harga naik"
    /\ ev.call[2].summary = "di Jakarta dan Bandung"
    /\ ev.result.topics = <<"ekonomi", "umum">>
    /\ Len(ev.prev) = 1
    /\ ev.prev[1].call[1] = Taxonomy
    /\ ev.prev[1].call[2].title = "Harga naik"
    /\ ev.prev[1].call[2].summary = NULL
    /\ ev.prev[1].result.topics = <<"umum">>

\* C26: the fallback classifier sets is_editorial to True exactly when an
\* opinion marker occurs in the text and leaves it None otherwise; it is never
\* False.
C26_EditorialTrueOrUnknown ==
    ev.op = "_fallback_keyword_enrichment" =>
       /\ ev.result.is_editorial \in {"True", NULL}
       /\ ev.result.is_editorial = "True" <=>
             \E i \in 1..Len(OpinionMarkers) : Contains(CallText, OpinionMarkers[i])

C26_Witness ==
    /\ ev.op = "_fallback_keyword_enrichment"
    /\ ev.call[2].summary = "<b>OPINI</b> hukum"
    /\ ev.result.is_editorial = "True"
    /\ Len(ev.prev) = 1
    /\ ev.prev[1].call[2].title = "Skandal korupsi"
    /\ ev.prev[1].result.is_editorial = NULL

\* C27: the fallback classifier is deterministic: two calls with the same
\* taxonomy and the same title and summary return the same topics, actors,
\* sentiment, language and is_editorial, whatever else differs between the
\* calls.
C27_FallbackDeterministic ==
    ( /\ ev.op = "_fallback_keyword_enrichment"
      /\ Len(ev.prev) = 1
      /\ ev.prev[1].call[1] = ev.call[1]
      /\ ev.prev[1].call[2].title = ev.call[2].title
      /\ ev.prev[1].call[2].summary = ev.call[2].summary ) =>
         ev.prev[1].result = ev.result

C27_Witness ==
    /\ ev.op = "_fallback_keyword_enrichment"
    /\ Len(ev.prev) = 1
    /\ ev.prev[1].call[1] = ev.call[1]
    /\ ev.prev[1].call[2].title = ev.call[2].title
    /\ ev.prev[1].call[2].summary = ev.call[2].summary
    /\ ev.call[2].title = "Menurut saya KPK"
    /\ ev.prev[1].call[2].content_text # ev.call[2].content_text
    /\ ev.prev[1].call[2].id # ev.call[2].id
    /\ ev.result.actors = <<"KPK">>
    /\ ev.result.topics # << >>

\* C28: in every reachable state the stored content_hash of an item is the
\* fingerprint of its stored title and summary, also after a re-ingestion that
\* changed the title or the summary.
C28_HashMatchesStoredText ==
    \A id \in DOMAIN items :
       items[id].content_hash = _content_hash(items[id].title, items[id].summary)

\* C29: enrich_pending calls fetch_article_text for an item only if the item
\* has no stored content_text, and only in the item's one content step of the
\* pass; when it returns text, update_content stores the text with
\* content_status "ok" before the item is classified; when it returns nothing
\* the item's content fields stay as they are; classification follows in
\* both cases.
C29_ContentFetchStep ==
    [][ /\ ev'.op = "fetch_article_text" =>
             /\ pc = "fetch"
             /\ ~Truthy(items[pending[idx].id].content_text)
        /\ pc = "fetch" =>
             LET id == pending[idx].id
             IN /\ pc' = "classify"
                /\ idx' = idx
                /\ Truthy(items[id].content_text) =>
                      ev'.op # "fetch_article_text" /\ items' = items
                /\ (ev'.op = "fetch_article_text" /\ Truthy(ev'.content)) =>
                      items' = [items EXCEPT ![id] =
                                  [@ EXCEPT !.content_text = ev'.content,
                                            !.content_fetched_at = now_iso(cycle),
                                            !.content_status = "ok"]]
                /\ (ev'.op = "fetch_article_text" /\ ~Truthy(ev'.content)) =>
                      items' = items
        /\ pc' = "fetch" =>
             /\ idx' = IF pc = "enrich" THEN 1 ELSE idx + 1
             /\ \A i, j \in 1..Len(pending') :
                  pending'[i].id = pending'[j].id => i = j ]_vars

C29_Witness ==
    /\ pc = "classify"
    /\ idx = 2
    /\ Truthy(pending[1].content_text)
    /\ ~Truthy(pending[2].content_text)
    /\ ev.op = "fetch_article_text"
    /\ ev.content = "Isi artikel"
    /\ items[pending[2].id].content_text = "Isi artikel"
    /\ items[pending[2].id].content_status = "ok"
    /\ items[pending[1].id].content_text = pending[1].content_text

\* C30: a classification failure never aborts the batch: in one pass every
\* item returned by list_unenriched is processed, in list order, to a persisted
\* outcome, also after an earlier item failed on all its attempts (stated for
\* max_retries >= 0).
C30_EveryItemPersisted ==
    [][ ( /\ pc = "classify"
          /\ max_retries >= 0
          /\ (idx' = idx + 1 \/ pc' = "sleep") ) =>
             /\ items'[pending[idx].id].enriched_at # NULL
             /\ items'[pending[idx].id].enrich_status \in {"ok", "error"}
             /\ pending' = pending
             /\ pc' = "sleep" => idx = Len(pending) ]_vars

\* C31: in every reachable state the stored sentiment of every item is
\* positive, negative, neutral or unset, whichever path wrote it and whatever
\* the classification collaborator returned.
C31_SentimentInEnum ==
    \A id \in DOMAIN items :
       items[id].sentiment \in {"positive", "negative", "neutral", NULL}

\* C32: a cycle is strictly sequential: the source blocks run in the order
\* gdelt, mediastack, rss, youtube, each block's upsert done in the block's own
\* step; the enrichment pass starts only after the youtube block; within the
\* pass only the current item's row is written, and item k+1 is not taken up
\* before item k's outcome has been persisted (stated for max_retries >= 0).
SourceBlocks == {"gdelt", "mediastack", "rss", "youtube"}

C32_CycleStrictlySequential ==
    [][ /\ pc = "gdelt" => pc' \in {"mediastack", "sleep"}
        /\ pc = "mediastack" => pc' \in {"rss", "sleep", "exit"}
        /\ pc = "rss" => pc' = "youtube"
        /\ pc = "youtube" => pc' \in {"enrich", "sleep"}
        /\ ev'.op = "upsert_items" =>
             /\ pc \in SourceBlocks
             /\ \A i \in 1..Len(ev'.batch) : ev'.batch[i].platform = pc
        /\ pc' = "enrich" => pc = "youtube"
        /\ pc' \in {"fetch", "classify"} => pc \in {"enrich", "fetch", "classify"}
        /\ pc \in {"fetch", "classify"} =>
             /\ DOMAIN items' = DOMAIN items
             /\ \A id \in DOMAIN items \ {pending[idx].id} : items'[id] = items[id]
             /\ idx' \in {idx, idx + 1}
        /\ (pc = "classify" /\ idx' = idx + 1 /\ max_retries >= 0) =>
             items'[pending[idx].id].enriched_at # NULL ]_vars

\* C33: with no further ingestion, repeated enrich_pending passes with
\* batch_size >= 1 eventually reach a state in which list_unenriched is empty,
\* whatever the content-fetch and classification collaborators do (stated for
\* passes with max_retries >= 0).
C33_PendingEventuallyEmpty ==
    ( /\ [](ev.op = "list_unenriched" => ev.limit >= 1)
      /\ [](max_retries >= 0) )
       => <>(PendingIds(items) = {})

\* C34: the counts enrich_pending returns satisfy
\* pending = enriched_ok + enriched_error + skipped, pending being the number
\* of items selected for the pass (stated for max_retries >= 0).
C34_CountsAddUp ==
    (pc = "sleep" /\ enrich_ret # NoRet /\ max_retries >= 0) =>
       /\ enrich_ret.pending = Len(pending)
       /\ enrich_ret.pending =
             enrich_ret.enriched_ok + enrich_ret.enriched_error + enrich_ret.skipped

\* C35: in every state reachable through ingest_once and enrich_pending the
\* bookkeeping fields of a row are coupled: enriched_at is non-null exactly
\* when enrich_status and enrich_model are; status "ok" comes with a null
\* enrich_error; status "error" comes with a non-null enrich_error, empty
\* topics, actors and locations and null language, is_editorial and sentiment.
C35_BookkeepingCoupled ==
    \A id \in DOMAIN items :
       LET r == items[id]
       IN /\ (r.enriched_at # NULL) <=> (r.enrich_status # NULL)
          /\ (r.enriched_at # NULL) <=> (r.enrich_model # NULL)
          /\ r.enrich_status \in {NULL, "ok", "error"}
          /\ r.enrich_status = "ok" => r.enrich_error = NULL
          /\ r.enrich_status = "error" =>
                /\ r.enrich_error # NULL
                /\ r.topics = "[]" /\ r.actors = "[]" /\ r.locations = "[]"
                /\ r.language = NULL /\ r.is_editorial = NULL /\ r.sentiment = NULL

C35_Witness ==
    /\ cycle = 2
    /\ ev.op = "upsert_items"
    /\ ev.ret[2] >= 1
    /\ \E a, b \in DOMAIN items :
         /\ items[a].enrich_status = "error"
         /\ items[a].enrich_error = "503 Server Error"
         /\ items[a].enriched_at = now_iso(1)
         /\ items[b].enrich_status = "ok"
         /\ items[b].enrich_model = GeminiModel
         /\ items[b].ingested_at = now_iso(2)

\* C36: for every upsert_items call that completes, inserted + updated is the
\* number of records passed, inserted is the number of distinct ids of the
\* batch that were not stored before, the table grows by exactly inserted
\* rows, and no step ever removes a row.
C36_UpsertCounts ==
    [][ /\ DOMAIN items \subseteq DOMAIN items'
        /\ ev'.op = "upsert_items" =>
             LET ids == { ev'.batch[i].id : i \in 1..Len(ev'.batch) }
             IN /\ ev'.ret[1] + ev'.ret[2] = Len(ev'.batch)
                /\ ev'.ret[1] = Cardinality(ids \ DOMAIN items)
                /\ Cardinality(DOMAIN items') = Cardinality(DOMAIN items) + ev'.ret[1]
                /\ DOMAIN items' = DOMAIN items \cup ids ]_vars

C36_Witness ==
    /\ ev.op = "upsert_items"
    /\ Len(ev.batch) = 2
    /\ ev.batch[1].id = ev.batch[2].id
    /\ ev.batch[1] # ev.batch[2]
    /\ ev.ret = <<1, 1>>
    /\ Cardinality(DOMAIN items) = 2

\* C37: upsert_items is idempotent on the table: a call with the same list of
\* records as the call before it leaves the table as that call left it, and
\* returns inserted = 0 and updated = the number of records.
C37_UpsertIdempotent ==
    [][ ( /\ ev.op = "upsert_items"
          /\ ev'.op = "upsert_items"
          /\ ev'.batch = ev.batch ) =>
             /\ items' = items
             /\ ev'.ret = <<0, Len(ev'.batch)>> ]_vars

C37_Witness ==
    /\ ev.op = "upsert_items"
    /\ Len(ev.batch) = 2
    /\ ev.batch[1].id # ev.batch[2].id
    /\ ev.ret = <<0, 2>>
    /\ items = upsert_items(EmptyStore, ev.batch).store

\* the fields a normalizer leaves for the content fetch and the enrichment
FilledLater ==
    { "content_text", "content_fetched_at", "content_status", "topics", "actors",
      "locations", "language", "is_editorial", "sentiment", "tags_json",
      "enriched_at", "enrich_model", "enrich_status", "enrich_error" }

\* C38: every record ingest_once passes to upsert_items has its content fields
\* (other than content_hash), enrichment fields and bookkeeping fields null; a
\* row the call inserts is pending and a row it updates is pending exactly when
\* it was before; a pending row stops being pending only when enrich_pending
\* writes the outcome of that row as the item it is processing.
C38_FreshItemsPending ==
    [][ /\ ev'.op = "upsert_items" =>
             /\ \A i \in 1..Len(ev'.batch) : \A f \in FilledLater : ev'.batch[i][f] = NULL
             /\ \A id \in DOMAIN items' \ DOMAIN items : id \in PendingIds(items')
             /\ \A id \in DOMAIN items : id \in PendingIds(items') <=> id \in PendingIds(items)
        /\ \A id \in PendingIds(items) \ PendingIds(items') :
             /\ pc \notin SourceBlocks
             /\ idx \in 1..Len(pending)
             /\ pending[idx].id = id ]_vars

C38_Witness ==
    /\ cycle = 2
    /\ ev.op = "upsert_items"
    /\ ev.ret = <<1, 1>>
    /\ \E a, b \in DOMAIN items :
         /\ items[a].enriched_at = now_iso(1)
         /\ items[a].ingested_at = now_iso(2)
         /\ items[b].enriched_at = NULL
         /\ items[b].ingested_at = now_iso(2)

\* the columns update_content may write
ContentColumns == { "content_text", "content_fetched_at", "content_status", "content_hash" }

\* C39: update_content adds and removes no row, leaves every row other than
\* the addressed one as it was, changes no column of the addressed row other
\* than content_text, content_fetched_at, content_status and content_hash,
\* changes content_hash only when the hash argument is a non-empty string,
\* and leaves the pending set as it was.
C39_UpdateContentFrame ==
    [][ ev'.op = "update_content" =>
          /\ DOMAIN items' = DOMAIN items
          /\ \A id \in DOMAIN items :
               /\ id # ev'.item_id => items'[id] = items[id]
               /\ \A f \in DOMAIN items[id] \ ContentColumns : items'[id][f] = items[id][f]
               /\ ~Truthy(ev'.call[1]) => items'[id].content_hash = items[id].content_hash
          /\ PendingIds(items') = PendingIds(items) ]_vars

C39_Witness ==
    /\ ev.op = "update_content"
    /\ ev.call = << "" >>
    /\ ev.item_id \in DOMAIN items
    /\ items[ev.item_id].content_text = "Isi artikel"
    /\ items[ev.item_id].content_status = "ok"
    /\ items[ev.item_id].content_hash \notin { NULL, "", "sha256:other" }
    /\ items[ev.item_id].enriched_at # NULL
    /\ \E b \in DOMAIN items : b # ev.item_id /\ items[b].enriched_at = NULL

\* C40: every stored row is stored under its id column, and that id is the
\* fingerprint of "<platform>|<url>" for the platform and url the row holds
\* now (an absent url counting as the empty string); an upsert_items call
\* leaves id, platform and url of every row that existed before as they were.
C40_IdIsFingerprint ==
    [][ /\ \A id \in DOMAIN items' :
             /\ items'[id].id = id
             /\ id = sha256_text(items'[id].platform \o "|" \o
                                 (IF items'[id].url = NULL THEN "" ELSE items'[id].url))
        /\ \A id \in DOMAIN items :
             /\ id \in DOMAIN items'
             /\ items'[id].id = items[id].id
             /\ items'[id].platform = items[id].platform
             /\ items'[id].url = items[id].url ]_vars

C40_Witness ==
    /\ cycle = 2
    /\ ev.op = "upsert_items"
    /\ ev.ret[2] >= 1
    /\ \E a, b \in DOMAIN items :
         /\ items[a].platform # items[b].platform
         /\ items[a].url = items[b].url
         /\ items[a].ingested_at = now_iso(2)
         /\ items[b].ingested_at = now_iso(1)

====
